---------------------------- MODULE Spec2Model ----------------------------
(***************************************************************************)
(* LiveTelemetryTrainer: the scoring engine (scoring.js) and the reference *)
(* telemetry generator (telemetryData.js) as state machines.               *)
(*                                                                         *)
(* Numbers.  The program computes in IEEE doubles.  Here every quantity of *)
(* the scoring engine is an exact rational, a record [n, d] in lowest      *)
(* terms with d > 0, so that two values are equal exactly when their       *)
(* records are.  Times are rational seconds.                               *)
(***************************************************************************)
EXTENDS Integers, Sequences, FiniteSets, TLC

VARIABLES
    samples,            \* ScoringSystem.samples
    deviations,         \* ScoringSystem.deviations
    timingOffsets,      \* ScoringSystem.timingOffsets
    throttleGradients,  \* ScoringSystem.throttleGradients
    brakeGradients,     \* ScoringSystem.brakeGradients
    currentScore,       \* ScoringSystem.currentScore
    shared,             \* the stored objects that are the caller's own objects:
                        \* <<k, "player">> when samples[k].player is the object
                        \* the caller passed, not a copy of it
    referenceData,      \* TelemetryData.referenceData
    currentPattern,     \* TelemetryData: the pattern the reference data was made from
    isRunning,          \* LiveTelemetryTrainer.isRunning
    currentTime,        \* LiveTelemetryTrainer.currentTime
    validationMessage,  \* elements.patternValidation: its type and text
    throttleInput,      \* InputHandler.throttleInput
    brakeInput,         \* InputHandler.brakeInput
    keys,               \* InputHandler.keys
    gamepadIndex,       \* InputHandler.gamepadIndex
    isReplayMode,       \* LiveTelemetryTrainer.isReplayMode
    replayData,         \* LiveTelemetryTrainer.replayData
    currentSession,     \* LiveTelemetryTrainer.currentSession
    sessions,           \* localStorage: the array under 'telemetryTrainingSessions'
    graphPoints,        \* GraphRenderer: the data points added since clearHistory()
    now,                \* Date.now()
    trainingMode,       \* LiveTelemetryTrainer.trainingMode
    beginnerSettings,   \* LiveTelemetryTrainer.beginnerSettings
    playbackSpeed,      \* LiveTelemetryTrainer.playbackSpeed
    appTolerance,       \* LiveTelemetryTrainer.tolerance
    startTimers,        \* the pending setTimeout(() => this.start(), 500) calls
    frameMillis,        \* the display's frame interval in milliseconds: what
                        \* performance.now() advances by between two frames
    ret                 \* the last call made: its name, its argument (for reset,
                        \* the number of samples it cleared), what it returned

scoreVars == <<samples, deviations, timingOffsets, throttleGradients,
               brakeGradients, currentScore, shared>>

telVars == <<referenceData, currentPattern>>

inputVars == <<throttleInput, brakeInput, keys, gamepadIndex>>

sessionVars == <<isReplayMode, replayData, currentSession, sessions, graphPoints, now>>

modeVars == <<trainingMode, beginnerSettings, playbackSpeed, appTolerance, startTimers,
              frameMillis>>

appVars == <<isRunning, currentTime, validationMessage, inputVars, sessionVars,
             modeVars>>

vars == <<samples, deviations, timingOffsets, throttleGradients,
          brakeGradients, currentScore, shared, referenceData, currentPattern,
          isRunning, currentTime, validationMessage, throttleInput, brakeInput,
          keys, gamepadIndex, isReplayMode, replayData, currentSession, sessions,
          graphPoints, now, trainingMode, beginnerSettings, playbackSpeed, appTolerance,
          startTimers, frameMillis, ret>>

---------------------------------------------------------------------------
(* Exact rational arithmetic standing for the program's Number type. *)

Abs(i) == IF i < 0 THEN -i ELSE i

RECURSIVE GCD(_, _)
GCD(a, b) == IF b = 0 THEN a ELSE GCD(b, a % b)

Rat(num, den) ==
    LET s == IF den < 0 THEN -1 ELSE 1
        g == GCD(Abs(num), Abs(den))
    IN  [n |-> (s * num) \div g, d |-> (s * den) \div g]

R(i) == [n |-> i, d |-> 1]

RNeg(a)    == [n |-> -a.n, d |-> a.d]
RAdd(a, b) ==
    LET g == GCD(a.d, b.d)
    IN  Rat(a.n * (b.d \div g) + b.n * (a.d \div g), (a.d \div g) * b.d)
RSub(a, b) == RAdd(a, RNeg(b))
RMul(a, b) ==
    LET g1 == GCD(Abs(a.n), b.d)
        g2 == GCD(Abs(b.n), a.d)
    IN  [n |-> (a.n \div g1) * (b.n \div g2), d |-> (a.d \div g2) * (b.d \div g1)]
RDiv(a, b) == Rat(a.n * b.d, a.d * b.n)
RAbs(a)    == [n |-> Abs(a.n), d |-> a.d]
RLe(a, b)  ==
    LET g == GCD(a.d, b.d) IN a.n * (b.d \div g) <= b.n * (a.d \div g)
RLt(a, b)  ==
    LET g == GCD(a.d, b.d) IN a.n * (b.d \div g) < b.n * (a.d \div g)
RMax(a, b) == IF RLe(a, b) THEN b ELSE a
RMin(a, b) == IF RLe(a, b) THEN a ELSE b
RFloor(a)  == a.n \div a.d

\* Number.prototype.toFixed(digits), digits in {0, 1}: the nearest multiple of
\* 10^-digits, a tie going away from zero.
ToFixed(a, digits) ==
    LET p == IF digits = 0 THEN 1 ELSE 10
        m == RAbs(a)
        k == (2 * m.n * p + m.d) \div (2 * m.d)
    IN  Rat(IF a.n < 0 THEN -k ELSE k, p)

\* Math.round: the nearest integer, a tie going up.
MathRound(a) == (2 * a.n + a.d) \div (2 * a.d)

\* Array.prototype.slice(start) with 0 <= start.
Slice(arr, start) == SubSeq(arr, start + 1, Len(arr))

\* arr.reduce((sum, val) => sum + val, 0) over arr[lo..hi]; exact addition is
\* associative, so the sum is taken by halves to keep the evaluation shallow.
RECURSIVE SumRange(_, _, _)
SumRange(arr, lo, hi) ==
    IF lo > hi THEN R(0)
    ELSE IF lo = hi THEN arr[lo]
    ELSE LET mid == (lo + hi) \div 2
         IN  RAdd(SumRange(arr, lo, mid), SumRange(arr, mid + 1, hi))

SumFrom(arr, i) == SumRange(arr, i, Len(arr))

\* [...arr].sort((a, b) => a - b)
RECURSIVE SortAsc(_)
SortAsc(arr) ==
    IF Len(arr) <= 1 THEN arr
    ELSE LET rest == SortAsc(Tail(arr))
             x    == Head(arr)
             k    == Cardinality({i \in 1..Len(rest) : RLt(rest[i], x)})
         IN  SubSeq(rest, 1, k) \o <<x>> \o SubSeq(rest, k + 1, Len(rest))

---------------------------------------------------------------------------
(* scoring.js *)

ActiveThreshold == 10
RecentWindow == 120

EmptyScore ==
    [meanDeviation |-> R(0), timingOffset |-> R(0), smoothness |-> R(0),
     accuracy |-> "N/A"]

calculateMean(arr) ==
    IF Len(arr) = 0 THEN R(0) ELSE RDiv(SumFrom(arr, 1), R(Len(arr)))

\* Mutant: the rank taken as ceil(p * n) - 1.
calculatePercentileCeil(arr, pNum, pDen) ==
    IF Len(arr) = 0 THEN R(0)
    ELSE LET sorted == SortAsc(arr)
             index  == (Len(sorted) * pNum + pDen - 1) \div pDen - 1
         IN  sorted[(IF index < Len(sorted) - 1 THEN index ELSE Len(sorted) - 1) + 1]

calculatePercentile(arr, pNum, pDen) ==
    IF Len(arr) = 0 THEN R(0)
    ELSE LET sorted == SortAsc(arr)
             index  == (Len(sorted) * pNum) \div pDen
         IN  sorted[(IF index < Len(sorted) - 1 THEN index ELSE Len(sorted) - 1) + 1]

\* Mutant: the A+ breakpoint excluded (< for <=).
calculateAccuracyGradeStrict(meanDeviation, tolerance) ==
    IF RLt(meanDeviation, RMul(R(tolerance), Rat(3, 10))) THEN "A+"
    ELSE IF RLe(meanDeviation, RMul(R(tolerance), Rat(5, 10))) THEN "A"
    ELSE IF RLe(meanDeviation, RMul(R(tolerance), Rat(7, 10))) THEN "B"
    ELSE IF RLe(meanDeviation, R(tolerance)) THEN "C"
    ELSE IF RLe(meanDeviation, RMul(R(tolerance), Rat(13, 10))) THEN "D"
    ELSE "F"

\* Mutant: D reaching up to 1.4 times the tolerance.
calculateAccuracyGradeWideD(meanDeviation, tolerance) ==
    IF RLe(meanDeviation, RMul(R(tolerance), Rat(3, 10))) THEN "A+"
    ELSE IF RLe(meanDeviation, RMul(R(tolerance), Rat(5, 10))) THEN "A"
    ELSE IF RLe(meanDeviation, RMul(R(tolerance), Rat(7, 10))) THEN "B"
    ELSE IF RLe(meanDeviation, R(tolerance)) THEN "C"
    ELSE IF RLe(meanDeviation, RMul(R(tolerance), Rat(14, 10))) THEN "D"
    ELSE "F"

calculateAccuracyGrade(meanDeviation, tolerance) ==
    IF RLe(meanDeviation, RMul(R(tolerance), Rat(3, 10))) THEN "A+"
    ELSE IF RLe(meanDeviation, RMul(R(tolerance), Rat(5, 10))) THEN "A"
    ELSE IF RLe(meanDeviation, RMul(R(tolerance), Rat(7, 10))) THEN "B"
    ELSE IF RLe(meanDeviation, R(tolerance)) THEN "C"
    ELSE IF RLe(meanDeviation, RMul(R(tolerance), Rat(13, 10))) THEN "D"
    ELSE "F"

\* Mutant: the floor of 0 missing.
smoothnessNoFloor(avgGradient) ==
    RMin(R(100), RSub(R(100), RDiv(avgGradient, R(5))))

\* Math.max(0, Math.min(100, 100 - avgGradient / 5))
smoothnessOf(avgGradient) ==
    RMax(R(0), RMin(R(100), RSub(R(100), RDiv(avgGradient, R(5)))))

\* Mutant: a reference of exactly 10 counted as active (>= for >).
weightedDeviationActiveAt10(playerInput, referenceInput) ==
    LET throttleDeviation == RAbs(RSub(playerInput.throttle, referenceInput.throttle))
        brakeDeviation    == RAbs(RSub(playerInput.brake, referenceInput.brake))
        isThrottleActive  == RLe(R(ActiveThreshold), referenceInput.throttle)
        isBrakeActive     == RLe(R(ActiveThreshold), referenceInput.brake)
    IN  IF isBrakeActive /\ isThrottleActive
          THEN RDiv(RAdd(throttleDeviation, brakeDeviation), R(2))
        ELSE IF isBrakeActive THEN brakeDeviation
        ELSE IF isThrottleActive THEN throttleDeviation
        ELSE RDiv(RAdd(RAbs(playerInput.throttle), RAbs(playerInput.brake)), R(2))

weightedDeviationOf(playerInput, referenceInput) ==
    LET throttleDeviation == RAbs(RSub(playerInput.throttle, referenceInput.throttle))
        brakeDeviation    == RAbs(RSub(playerInput.brake, referenceInput.brake))
        isThrottleActive  == RLt(R(ActiveThreshold), referenceInput.throttle)
        isBrakeActive     == RLt(R(ActiveThreshold), referenceInput.brake)
    IN  IF isBrakeActive /\ isThrottleActive
          THEN RDiv(RAdd(throttleDeviation, brakeDeviation), R(2))
        ELSE IF isBrakeActive THEN brakeDeviation
        ELSE IF isThrottleActive THEN throttleDeviation
        ELSE RDiv(RAdd(RAbs(playerInput.throttle), RAbs(playerInput.brake)), R(2))

\* Mutant: a brake of exactly 10 counted as braking (>= for >).
calculateTimingErrorFrom10(playerInput, referenceInput) ==
    LET playerBraking == RLe(R(10), playerInput.brake)
        refBraking    == RLe(R(10), referenceInput.brake)
    IN  IF playerBraking /\ ~refBraking THEN R(-50)
        ELSE IF ~playerBraking /\ refBraking THEN R(50)
        ELSE R(0)

calculateTimingError(playerInput, referenceInput) ==
    LET playerBraking == RLt(R(10), playerInput.brake)
        refBraking    == RLt(R(10), referenceInput.brake)
    IN  IF playerBraking /\ ~refBraking THEN R(-50)
        ELSE IF ~playerBraking /\ refBraking THEN R(50)
        ELSE R(0)


\* The engine's fields as one record.
engine ==
    [samples |-> samples, deviations |-> deviations,
     timingOffsets |-> timingOffsets, throttleGradients |-> throttleGradients,
     brakeGradients |-> brakeGradients, currentScore |-> currentScore,
     shared |-> shared]

\* Mutant: reset() leaving the brake gradients in place.
resetEngineKeepsBrakeGradients ==
    [samples |-> <<>>, deviations |-> <<>>, timingOffsets |-> <<>>,
     throttleGradients |-> <<>>, brakeGradients |-> brakeGradients,
     currentScore |-> EmptyScore, shared |-> {}]

\* Mutant: reset() leaving the live snapshot in place.
resetEngineKeepsScore ==
    [samples |-> <<>>, deviations |-> <<>>, timingOffsets |-> <<>>,
     throttleGradients |-> <<>>, brakeGradients |-> <<>>,
     currentScore |-> currentScore, shared |-> {}]

\* The engine after reset(): also the engine the constructor leaves.
resetEngine ==
    [samples |-> <<>>, deviations |-> <<>>, timingOffsets |-> <<>>,
     throttleGradients |-> <<>>, brakeGradients |-> <<>>,
     currentScore |-> EmptyScore, shared |-> {}]

\* Mutant: the sample stores the objects it was passed (player: playerInput).
callerObjectsInByReference(k) == {<<k, "player">>, <<k, "reference">>}

\* The objects of the k-th stored sample that are the caller's own: none,
\* { ...playerInput } and { ...referenceInput } are new objects, and the fields
\* they copy are numbers.
callerObjectsIn(k) == {}

\* Mutant: a sample that does not advance the time records gradients of 0.
recordSampleAlwaysGradient(e, time, playerInput, referenceInput) ==
    LET weightedDeviation == weightedDeviationOf(playerInput, referenceInput)
        timingError == calculateTimingError(playerInput, referenceInput)
        prevSample  == e.samples[Len(e.samples)]
        dt          == RSub(time, prevSample.time)
        grad(a, b)  == IF RLt(R(0), dt) THEN RAbs(RDiv(RSub(a, b), dt)) ELSE R(0)
    IN  [e EXCEPT
           !.deviations = Append(@, weightedDeviation),
           !.timingOffsets = Append(@, timingError),
           !.throttleGradients =
               IF Len(e.samples) > 0
                 THEN Append(@, grad(playerInput.throttle, prevSample.player.throttle))
                 ELSE @,
           !.brakeGradients =
               IF Len(e.samples) > 0
                 THEN Append(@, grad(playerInput.brake, prevSample.player.brake))
                 ELSE @,
           !.samples = Append(@, [time |-> time, player |-> playerInput,
                                  reference |-> referenceInput,
                                  deviation |-> weightedDeviation]),
           !.shared = @ \cup callerObjectsIn(Len(e.samples) + 1)]

\* addSample up to and including "Store sample": the histories after the pushes.
\* Mutant: the timing offset pushed only when the player is early or late.
recordSampleSparseOffsets(e, time, playerInput, referenceInput) ==
    LET weightedDeviation == weightedDeviationOf(playerInput, referenceInput)
        timingError == calculateTimingError(playerInput, referenceInput)
        prevSample  == e.samples[Len(e.samples)]
        dt          == RSub(time, prevSample.time)
        pushGrad    == Len(e.samples) > 0 /\ RLt(R(0), dt)
    IN  [e EXCEPT
           !.deviations = Append(@, weightedDeviation),
           !.timingOffsets = IF timingError = R(0) THEN @ ELSE Append(@, timingError),
           !.throttleGradients =
               IF pushGrad
                 THEN Append(@, RAbs(RDiv(RSub(playerInput.throttle,
                                              prevSample.player.throttle), dt)))
                 ELSE @,
           !.brakeGradients =
               IF pushGrad
                 THEN Append(@, RAbs(RDiv(RSub(playerInput.brake,
                                              prevSample.player.brake), dt)))
                 ELSE @,
           !.samples = Append(@, [time |-> time, player |-> playerInput,
                                  reference |-> referenceInput,
                                  deviation |-> weightedDeviation]),
           !.shared = @ \cup callerObjectsIn(Len(e.samples) + 1)]

recordSample(e, time, playerInput, referenceInput) ==
    LET weightedDeviation == weightedDeviationOf(playerInput, referenceInput)
        timingError == calculateTimingError(playerInput, referenceInput)
        prevSample  == e.samples[Len(e.samples)]
        dt          == RSub(time, prevSample.time)
        pushGrad    == Len(e.samples) > 0 /\ RLt(R(0), dt)
    IN  [e EXCEPT
           !.deviations = Append(@, weightedDeviation),
           !.timingOffsets = Append(@, timingError),
           !.throttleGradients =
               IF pushGrad
                 THEN Append(@, RAbs(RDiv(RSub(playerInput.throttle,
                                              prevSample.player.throttle), dt)))
                 ELSE @,
           !.brakeGradients =
               IF pushGrad
                 THEN Append(@, RAbs(RDiv(RSub(playerInput.brake,
                                              prevSample.player.brake), dt)))
                 ELSE @,
           !.samples = Append(@, [time |-> time, player |-> playerInput,
                                  reference |-> referenceInput,
                                  deviation |-> weightedDeviation]),
           !.shared = @ \cup callerObjectsIn(Len(e.samples) + 1)]

\* Mutant: the live snapshot taken over the whole session (startIndex = 0).
updateCurrentScoresWholeSession(e, tolerance) ==
    IF Len(e.samples) = 0 THEN e.currentScore
    ELSE LET meanDeviation == calculateMean(e.deviations)
             avgGradient   ==
                 RDiv(RAdd(calculateMean(e.throttleGradients),
                           calculateMean(e.brakeGradients)), R(2))
         IN  [meanDeviation |-> meanDeviation,
              timingOffset  |-> calculateMean(e.timingOffsets),
              smoothness    |-> smoothnessOf(avgGradient),
              accuracy      |-> calculateAccuracyGrade(meanDeviation, tolerance)]

\* this.currentScore after updateCurrentScores(tolerance) on engine e.
updateCurrentScores(e, tolerance) ==
    IF Len(e.samples) = 0 THEN e.currentScore
    ELSE LET n             == Len(e.samples)
             recentSamples == IF RecentWindow < n THEN RecentWindow ELSE n
             startIndex    == IF n - recentSamples > 0 THEN n - recentSamples ELSE 0
             gradStart     == IF startIndex - 1 > 0 THEN startIndex - 1 ELSE 0
             meanDeviation == calculateMean(Slice(e.deviations, startIndex))
             avgGradient   ==
                 RDiv(RAdd(calculateMean(Slice(e.throttleGradients, gradStart)),
                           calculateMean(Slice(e.brakeGradients, gradStart))), R(2))
         IN  [meanDeviation |-> meanDeviation,
              timingOffset  |-> calculateMean(Slice(e.timingOffsets, startIndex)),
              smoothness    |-> smoothnessOf(avgGradient),
              accuracy      |-> calculateAccuracyGrade(meanDeviation, tolerance)]

\* The object getCurrentScores() returns.
currentScoresOf(score) ==
    [meanDeviation |-> ToFixed(score.meanDeviation, 1),
     timingOffset  |-> MathRound(score.timingOffset),
     smoothness    |-> ToFixed(score.smoothness, 0),
     accuracy      |-> score.accuracy]

\* Mutant: the summary's smoothness from the throttle gradients alone.
sessionStatsThrottleOnly(e, tolerance) ==
    LET meanDeviation == calculateMean(e.deviations)
    IN  [meanDeviation |-> meanDeviation,
         timingOffset  |-> calculateMean(e.timingOffsets),
         smoothness    |-> smoothnessOf(calculateMean(e.throttleGradients)),
         grade         |-> calculateAccuracyGrade(meanDeviation, tolerance)]

\* The statistics getSessionSummary computes, before it formats them.
sessionStats(e, tolerance) ==
    LET meanDeviation == calculateMean(e.deviations)
    IN  [meanDeviation |-> meanDeviation,
         timingOffset  |-> calculateMean(e.timingOffsets),
         smoothness    |->
             smoothnessOf(calculateMean(e.throttleGradients \o e.brakeGradients)),
         grade         |-> calculateAccuracyGrade(meanDeviation, tolerance)]

\* The object getSessionSummary(tolerance) returns.
sessionSummaryOf(e, tolerance) ==
    IF Len(e.samples) = 0
      THEN [meanDeviation |-> R(0), timingOffset |-> 0, smoothness |-> R(0),
            grade |-> "N/A", totalSamples |-> 0]
    ELSE LET st == sessionStats(e, tolerance)
         IN  [meanDeviation |-> ToFixed(st.meanDeviation, 1),
              timingOffset  |-> MathRound(st.timingOffset),
              smoothness    |-> ToFixed(st.smoothness, 0),
              grade         |-> st.grade,
              totalSamples  |-> Len(e.samples),
              p50Deviation  |-> ToFixed(calculatePercentile(e.deviations, 50, 100), 1),
              p95Deviation  |-> ToFixed(calculatePercentile(e.deviations, 95, 100), 1)]

setEngine(e) ==
    /\ samples' = e.samples
    /\ deviations' = e.deviations
    /\ timingOffsets' = e.timingOffsets
    /\ throttleGradients' = e.throttleGradients
    /\ brakeGradients' = e.brakeGradients
    /\ currentScore' = e.currentScore
    /\ shared' = e.shared

reset ==
    /\ setEngine(resetEngine)
    /\ ret' = [op |-> "reset", arg |-> Len(samples), value |-> R(0)]
    /\ UNCHANGED <<telVars, appVars>>

addSample(time, playerInput, referenceInput, tolerance) ==
    LET e1 == recordSample(engine, time, playerInput, referenceInput)
    IN  /\ setEngine([e1 EXCEPT !.currentScore = updateCurrentScores(e1, tolerance)])
        /\ ret' = [op |-> "addSample", arg |-> tolerance,
                   value |-> e1.samples[Len(e1.samples)].deviation]
        /\ UNCHANGED <<telVars, appVars>>

\* The caller of addSample assigns to a field of an object it passed earlier: the
\* stored objects that are that object change with it.
callerChanges(object, field, value) ==
    /\ samples' = [k \in 1..Len(samples) |->
                      IF <<k, object>> \in shared
                        THEN [samples[k] EXCEPT ![object][field] = value]
                        ELSE samples[k]]
    /\ ret' = [op |-> "callerChanges", arg |-> 0, value |-> value]
    /\ UNCHANGED <<deviations, timingOffsets, throttleGradients, brakeGradients,
                   currentScore, shared, telVars, appVars>>

getCurrentScores ==
    /\ ret' = [op |-> "getCurrentScores", arg |-> 0,
               value |-> currentScoresOf(currentScore)]
    /\ UNCHANGED <<scoreVars, telVars, appVars>>

\* Mutant: calculatePercentile sorting the array it is given (arr.sort).
sortedInPlace(arr) == SortAsc(arr)

\* The array calculatePercentile was given, after the call: [...arr].sort sorts
\* a copy, so arr is as it was.
afterCalculatePercentile(arr) == arr

getSessionSummary(tolerance) ==
    /\ ret' = [op |-> "getSessionSummary", arg |-> tolerance,
               value |-> sessionSummaryOf(engine, tolerance)]
    /\ deviations' = IF Len(samples) = 0 THEN deviations
                     ELSE afterCalculatePercentile(afterCalculatePercentile(deviations))
    /\ UNCHANGED <<samples, timingOffsets, throttleGradients, brakeGradients,
                   currentScore, shared, telVars, appVars>>

---------------------------------------------------------------------------
(* inputHandler.js *)

\* null
Null == [null |-> TRUE]

RampUpRate == 150
RampDownRate == 200
Deadzone == 2
SmoothingFactor == Rat(15, 100)
MinInput == 0
MaxInput == 100

\* The handler's fields as one record; gamepadAxes.throttle and .brake are 1
\* and 2 exactly when gamepadIndex is not null.
handler ==
    [throttleInput |-> throttleInput, brakeInput |-> brakeInput, keys |-> keys,
     gamepadIndex |-> gamepadIndex]

\* What navigator.getGamepads()[gamepadIndex] is: present or not, the values of
\* axes 1 and 2 and of buttons 6 and 7, and which of these four are undefined.
Pad(present, axis1, axis2, button6, button7, absent) ==
    [present |-> present, axis1 |-> axis1, axis2 |-> axis2, button6 |-> button6,
     button7 |-> button7, absent |-> absent]

\* An axis value as a percentage: -1..1 onto 0..100, 0..1 onto 0..100.
axisPercent(value) ==
    IF RLe(R(0), value) /\ RLe(value, R(1))
      THEN RMul(value, R(100))
      ELSE RMul(RDiv(RAdd(value, R(1)), R(2)), R(100))

readGamepad(h, pad) ==
    IF h.gamepadIndex = Null THEN [throttle |-> R(0), brake |-> R(0)]
    ELSE IF ~pad.present THEN [throttle |-> R(0), brake |-> R(0)]
    ELSE LET throttle == IF "axis1" \in pad.absent THEN R(0) ELSE axisPercent(pad.axis1)
             brake    == IF "axis2" \in pad.absent THEN R(0) ELSE axisPercent(pad.axis2)
         IN  [throttle |-> IF "button6" \in pad.absent THEN throttle
                           ELSE RMax(throttle, RMul(pad.button6, R(100))),
              brake    |-> IF "button7" \in pad.absent THEN brake
                           ELSE RMax(brake, RMul(pad.button7, R(100)))]

\* Mutant: update without its deadzone.
updateNoDeadzone(h, deltaTime, mode, customSettings, pad) ==
    LET dt           == RDiv(deltaTime, R(1000))
        gamepadInput == readGamepad(h, pad)
        keyThrottle  == IF h.keys.throttle THEN R(100) ELSE R(0)
        targetBrake  == IF h.gamepadIndex # Null THEN gamepadInput.brake
                        ELSE IF h.keys.brake THEN R(100) ELSE R(0)
        brakeThreshold ==
            IF customSettings = Null THEN R(10)
            ELSE IF customSettings.brakeThreshold = R(0) THEN R(10)
            ELSE customSettings.brakeThreshold
        allowOverlap == IF customSettings = Null THEN FALSE
                        ELSE customSettings.allowOverlap
        targetThrottle ==
            IF mode = "beginner" /\ ~allowOverlap /\ RLt(brakeThreshold, targetBrake)
              THEN R(0)
            ELSE IF h.gamepadIndex # Null THEN gamepadInput.throttle
            ELSE keyThrottle
        moved(target, input) ==
            IF h.gamepadIndex = Null
              THEN IF RLt(input, target)
                     THEN RMin(target, RAdd(input, RMul(R(RampUpRate), dt)))
                     ELSE RMax(target, RSub(input, RMul(R(RampDownRate), dt)))
              ELSE RAdd(input, RMul(RSub(target, input), SmoothingFactor))
        deadzoned(x) == x
        clamped(x)   == RMax(R(MinInput), RMin(R(MaxInput), x))
    IN  [h EXCEPT
           !.throttleInput = clamped(deadzoned(moved(targetThrottle, h.throttleInput))),
           !.brakeInput    = clamped(deadzoned(moved(targetBrake, h.brakeInput)))]

\* The handler after update(deltaTime, trainingMode, customSettings), the gamepad
\* reading pad.
update(h, deltaTime, mode, customSettings, pad) ==
    LET dt           == RDiv(deltaTime, R(1000))
        gamepadInput == readGamepad(h, pad)
        keyThrottle  == IF h.keys.throttle THEN R(100) ELSE R(0)
        targetBrake  == IF h.gamepadIndex # Null THEN gamepadInput.brake
                        ELSE IF h.keys.brake THEN R(100) ELSE R(0)
        brakeThreshold ==
            IF customSettings = Null THEN R(10)
            ELSE IF customSettings.brakeThreshold = R(0) THEN R(10)
            ELSE customSettings.brakeThreshold
        allowOverlap == IF customSettings = Null THEN FALSE
                        ELSE customSettings.allowOverlap
        targetThrottle ==
            IF mode = "beginner" /\ ~allowOverlap /\ RLt(brakeThreshold, targetBrake)
              THEN R(0)
            ELSE IF h.gamepadIndex # Null THEN gamepadInput.throttle
            ELSE keyThrottle
        moved(target, input) ==
            IF h.gamepadIndex = Null
              THEN IF RLt(input, target)
                     THEN RMin(target, RAdd(input, RMul(R(RampUpRate), dt)))
                     ELSE RMax(target, RSub(input, RMul(R(RampDownRate), dt)))
              ELSE RAdd(input, RMul(RSub(target, input), SmoothingFactor))
        deadzoned(x) == IF RLt(RAbs(x), R(Deadzone)) THEN R(0) ELSE x
        clamped(x)   == RMax(R(MinInput), RMin(R(MaxInput), x))
    IN  [h EXCEPT
           !.throttleInput = clamped(deadzoned(moved(targetThrottle, h.throttleInput))),
           !.brakeInput    = clamped(deadzoned(moved(targetBrake, h.brakeInput)))]

getInputs(h) == [throttle |-> h.throttleInput, brake |-> h.brakeInput]

\* InputHandler.reset()
resetInput(h) ==
    [h EXCEPT !.throttleInput = R(0), !.brakeInput = R(0),
              !.keys = [throttle |-> FALSE, brake |-> FALSE]]

setHandler(h) ==
    /\ throttleInput' = h.throttleInput
    /\ brakeInput' = h.brakeInput
    /\ keys' = h.keys
    /\ gamepadIndex' = h.gamepadIndex

\* handleKeyDown(e) and handleKeyUp(e): e.key in lower case, the key held or not.
\* The browser calls the event handlers and takes no result from them.
handleKey(key, down) ==
    /\ keys' = IF key = "w" THEN [keys EXCEPT !.throttle = down]
               ELSE IF key = "s" THEN [keys EXCEPT !.brake = down]
               ELSE keys
    /\ UNCHANGED <<throttleInput, brakeInput, gamepadIndex, ret>>
    /\ UNCHANGED <<scoreVars, telVars, isRunning, currentTime, validationMessage,
                   sessionVars, modeVars>>

handleGamepadConnected(index) ==
    /\ gamepadIndex' = index
    /\ UNCHANGED <<throttleInput, brakeInput, keys, ret>>
    /\ UNCHANGED <<scoreVars, telVars, isRunning, currentTime, validationMessage,
                   sessionVars, modeVars>>

handleGamepadDisconnected(index) ==
    /\ gamepadIndex' = IF index = gamepadIndex THEN Null ELSE gamepadIndex
    /\ UNCHANGED <<throttleInput, brakeInput, keys, ret>>
    /\ UNCHANGED <<scoreVars, telVars, isRunning, currentTime, validationMessage,
                   sessionVars, modeVars>>

\* inputHandler.update(deltaTime, trainingMode, beginnerSettings) followed by
\* getInputs(), as animate() calls them.
updateInputs(deltaTime, customSettings, pad) ==
    LET h == update(handler, deltaTime, trainingMode, customSettings, pad)
    IN  /\ setHandler(h)
        /\ ret' = [op |-> "update", arg |-> deltaTime, value |-> getInputs(h)]
        /\ UNCHANGED <<scoreVars, telVars, isRunning, currentTime, validationMessage,
                       sessionVars, modeVars>>

---------------------------------------------------------------------------
(* telemetryData.js *)

Duration == 30
SampleRate == 60

\* Math.sin(x) for x >= 0 to the hundredth: x is reduced modulo 2*pi with pi
\* taken as 355/113, and the half wave is Bhaskara's 16y(pi-y)/(5pi^2-4y(pi-y)).
MathSin(x) ==
    LET P == 355 * x.d
        y == (113 * x.n) % (2 * P)
        u == IF y < P THEN y ELSE y - P
        w == u * (P - u)
        h == (16 * w) \div ((5 * P * P - 4 * w) \div 100)
    IN  Rat(IF y < P THEN h ELSE -h, 100)

\* Mutant: no early return at the end time (the ramp is followed past it).
smoothRampOpenEnded(time, startTime, endTime, startValue, endValue) ==
    IF RLe(time, startTime) THEN startValue
    ELSE LET progress == RDiv(RSub(time, startTime), RSub(endTime, startTime))
             back     == RAdd(RMul(R(-2), progress), R(2))
             eased    == IF RLt(progress, Rat(1, 2))
                         THEN RMul(R(2), RMul(progress, progress))
                         ELSE RSub(R(1), RDiv(RMul(back, back), R(2)))
         IN  RAdd(startValue, RMul(RSub(endValue, startValue), eased))

smoothRamp(time, startTime, endTime, startValue, endValue) ==
    IF RLe(time, startTime) THEN startValue
    ELSE IF RLe(endTime, time) THEN endValue
    ELSE LET progress == RDiv(RSub(time, startTime), RSub(endTime, startTime))
             back     == RAdd(RMul(R(-2), progress), R(2))
             eased    == IF RLt(progress, Rat(1, 2))
                         THEN RMul(R(2), RMul(progress, progress))
                         ELSE RSub(R(1), RDiv(RMul(back, back), R(2)))
         IN  RAdd(startValue, RMul(RSub(endValue, startValue), eased))

calculateThrottle(time, duration) ==
    LET throttle ==
          IF RLt(time, R(3)) THEN smoothRamp(time, R(0), R(2), R(0), R(100))
          ELSE IF RLt(time, R(6)) THEN R(100)
          ELSE IF RLt(time, R(8))
               THEN smoothRamp(time, R(6), Rat(15, 2), R(100), R(20))
          ELSE IF RLt(time, R(10)) THEN R(10)
          ELSE IF RLt(time, R(12))
               THEN smoothRamp(time, R(10), R(12), R(10), R(100))
          ELSE IF RLt(time, R(16)) THEN R(100)
          ELSE IF RLt(time, R(18))
               THEN smoothRamp(time, R(16), Rat(35, 2), R(100), R(0))
          ELSE IF RLt(time, R(20)) THEN R(0)
          ELSE IF RLt(time, R(23))
               THEN smoothRamp(time, R(20), R(23), R(0), R(100))
          ELSE IF RLt(time, R(26)) THEN R(100)
          ELSE IF RLt(time, R(28))
               THEN smoothRamp(time, R(26), Rat(55, 2), R(100), R(30))
          ELSE smoothRamp(time, R(28), R(30), R(30), R(80))
    IN  RAdd(throttle, RMul(MathSin(RMul(time, R(5))), R(2)))

calculateBrake(time, duration) ==
    LET brake ==
          IF RLe(Rat(13, 2), time) /\ RLt(time, R(10))
          THEN IF RLt(time, Rat(15, 2))
               THEN smoothRamp(time, Rat(13, 2), Rat(15, 2), R(0), R(85))
               ELSE IF RLt(time, R(9))
               THEN smoothRamp(time, Rat(15, 2), R(9), R(85), R(20))
               ELSE smoothRamp(time, R(9), R(10), R(20), R(0))
          ELSE IF RLe(Rat(33, 2), time) /\ RLt(time, R(20))
          THEN IF RLt(time, Rat(35, 2))
               THEN smoothRamp(time, Rat(33, 2), Rat(35, 2), R(0), R(100))
               ELSE IF RLt(time, R(19))
               THEN smoothRamp(time, Rat(35, 2), R(19), R(100), R(70))
               ELSE smoothRamp(time, R(19), R(20), R(70), R(0))
          ELSE IF RLe(Rat(53, 2), time) /\ RLt(time, R(29))
          THEN IF RLt(time, Rat(55, 2))
               THEN smoothRamp(time, Rat(53, 2), Rat(55, 2), R(0), R(75))
               ELSE smoothRamp(time, Rat(55, 2), R(29), R(75), R(0))
          ELSE R(0)
    IN  IF RLt(R(10), brake)
        THEN RAdd(brake, RMul(MathSin(RMul(time, R(8))), R(3)))
        ELSE brake

\* Mutant: the sample pushed without the clamp to [0, 100].
referenceSampleUnclamped(i) ==
    LET time == Rat(i, SampleRate)
    IN  [time     |-> time,
         throttle |-> calculateThrottle(time, Duration),
         brake    |-> calculateBrake(time, Duration)]

\* The object pushed by iteration i of generateReferenceData's loop.
referenceSample(i) ==
    LET time     == Rat(i, SampleRate)
        throttle == calculateThrottle(time, Duration)
        brake    == calculateBrake(time, Duration)
    IN  [time     |-> time,
         throttle |-> RMax(R(0), RMin(R(100), throttle)),
         brake    |-> RMax(R(0), RMin(R(100), brake))]

totalSamples == Duration * SampleRate

\* Mutant: the loop running while i <= totalSamples.
generateReferenceDataInclusive ==
    [k \in 1..(totalSamples + 1) |-> referenceSample(k - 1)]

\* Mutant: the loop counter kept between calls, so a generation made while
\* the engine holds n samples starts at sample n.
generateReferenceDataContinued ==
    [k \in 1..totalSamples |-> referenceSample(k - 1 + Len(samples))]

\* for (let i = 0; i < totalSamples; i++) data.push(...)
generateReferenceData ==
    [k \in 1..totalSamples |-> referenceSample(k - 1)]

\* Mutant: the sample at floor(time * 60) returned without interpolation.
getReferenceAtNoInterpolation(data, time) ==
    IF RLt(time, R(0)) THEN [throttle |-> R(0), brake |-> R(0), reads |-> {}]
    ELSE LET index == RFloor(RMul(time, R(60)))
         IN  IF index >= Len(data) - 1
             THEN [throttle |-> data[Len(data)].throttle,
                   brake    |-> data[Len(data)].brake,
                   reads    |-> {Len(data) - 1}]
             ELSE [throttle |-> data[index + 1].throttle,
                   brake    |-> data[index + 1].brake,
                   reads    |-> {index}]

\* Mutant: the end guard as index >= length.
getReferenceAtLateGuard(data, time) ==
    IF RLt(time, R(0)) THEN [throttle |-> R(0), brake |-> R(0), reads |-> {}]
    ELSE LET index == RFloor(RMul(time, R(60)))
             reads == {index, index + 1}
         IN  IF index >= Len(data)
             THEN [throttle |-> data[Len(data)].throttle,
                   brake    |-> data[Len(data)].brake,
                   reads    |-> {Len(data) - 1}]
             ELSE IF ~(reads \subseteq 0..(Len(data) - 1))
             THEN [throttle |-> "TypeError", brake |-> "TypeError",
                   reads |-> reads]
             ELSE LET sample1  == data[index + 1]
                      sample2  == data[index + 2]
                      fraction == RSub(RMul(time, R(60)), R(index))
                  IN  [throttle |-> RAdd(sample1.throttle,
                           RMul(RSub(sample2.throttle, sample1.throttle), fraction)),
                       brake    |-> RAdd(sample1.brake,
                           RMul(RSub(sample2.brake, sample1.brake), fraction)),
                       reads    |-> reads]

\* getReferenceAt(time) on the array data (JavaScript index i is data[i + 1]):
\* what it returns and the set of indices it reads.  Reading an index outside
\* the array yields undefined, whose property access throws a TypeError.
getReferenceAt(data, time) ==
    IF RLt(time, R(0)) THEN [throttle |-> R(0), brake |-> R(0), reads |-> {}]
    ELSE LET index == RFloor(RMul(time, R(60)))
             reads == {index, index + 1}
         IN  IF index >= Len(data) - 1
             THEN [throttle |-> data[Len(data)].throttle,
                   brake    |-> data[Len(data)].brake,
                   reads    |-> {Len(data) - 1}]
             ELSE IF ~(reads \subseteq 0..(Len(data) - 1))
             THEN [throttle |-> "TypeError", brake |-> "TypeError",
                   reads |-> reads]
             ELSE LET sample1  == data[index + 1]
                      sample2  == data[index + 2]
                      fraction == RSub(RMul(time, R(60)), R(index))
                  IN  [throttle |-> RAdd(sample1.throttle,
                           RMul(RSub(sample2.throttle, sample1.throttle), fraction)),
                       brake    |-> RAdd(sample1.brake,
                           RMul(RSub(sample2.brake, sample1.brake), fraction)),
                       reads    |-> reads]

getDuration(data) == data[Len(data)].time

\* A segment object: three two-element arrays and the set of the fields it lacks.
Seg(t0, t1, th0, th1, b0, b1) ==
    [timeRange |-> <<t0, t1>>, throttle |-> <<R(th0), R(th1)>>,
     brake |-> <<R(b0), R(b1)>>, absent |-> {}]

\* A pattern object: its fields, the set of the fields it lacks, and whether its
\* segments value is an array.
Pattern(name, duration, segments) ==
    [name |-> name, duration |-> R(duration), segments |-> segments,
     absent |-> {}, segmentsIsArray |-> TRUE]

\* TELEMETRY_PATTERNS['default'], labels and description left out.
DefaultPattern ==
    Pattern("Race Track", 30,
      << Seg(R(0), R(3), 0, 100, 0, 0),
         Seg(R(3), R(6), 100, 100, 0, 0),
         Seg(R(6), Rat(15, 2), 100, 20, 0, 0),
         Seg(Rat(13, 2), Rat(15, 2), 20, 10, 0, 85),
         Seg(Rat(15, 2), R(9), 10, 10, 85, 20),
         Seg(R(9), R(10), 10, 10, 20, 0),
         Seg(R(10), R(12), 10, 100, 0, 0),
         Seg(R(12), R(16), 100, 100, 0, 0),
         Seg(R(16), Rat(35, 2), 100, 0, 0, 0),
         Seg(Rat(33, 2), Rat(35, 2), 0, 0, 0, 100),
         Seg(Rat(35, 2), R(19), 0, 0, 100, 70),
         Seg(R(19), R(20), 0, 0, 70, 0),
         Seg(R(20), R(23), 0, 100, 0, 0),
         Seg(R(23), R(26), 100, 100, 0, 0),
         Seg(R(26), Rat(55, 2), 100, 30, 0, 0),
         Seg(Rat(53, 2), Rat(55, 2), 30, 30, 0, 75),
         Seg(Rat(55, 2), R(29), 30, 80, 75, 0),
         Seg(R(29), R(30), 80, 80, 0, 0) >>)

\* TELEMETRY_PATTERNS, labels and descriptions left out.
BuiltinKeys ==
    {"default", "highway", "city", "trail-braking", "acceleration", "braking", "chicane", "oval"}

TELEMETRY_PATTERNS ==
    [key \in BuiltinKeys |->
       CASE key = "default" ->
         DefaultPattern
         [] key = "highway" ->
         Pattern("Highway Cruise", 30,
         <<
            Seg(R(0), R(5), 0, 100, 0, 0),
            Seg(R(5), R(15), 100, 100, 0, 0),
            Seg(R(15), R(17), 100, 85, 0, 0),
            Seg(R(17), R(22), 85, 100, 0, 0),
            Seg(R(22), R(30), 100, 100, 0, 0) >>)
         [] key = "city" ->
         Pattern("City Traffic", 30,
         <<
            Seg(R(0), R(3), 0, 50, 0, 0),
            Seg(R(3), R(5), 50, 0, 0, 80),
            Seg(R(5), R(8), 0, 0, 80, 0),
            Seg(R(8), R(11), 0, 60, 0, 0),
            Seg(R(11), R(13), 60, 0, 0, 70),
            Seg(R(13), R(16), 0, 0, 70, 0),
            Seg(R(16), R(20), 0, 50, 0, 0),
            Seg(R(20), R(22), 50, 0, 0, 60),
            Seg(R(22), R(30), 0, 40, 0, 0) >>)
         [] key = "trail-braking" ->
         Pattern("Trail Braking Focus", 30,
         <<
            Seg(R(0), R(4), 0, 100, 0, 0),
            Seg(R(4), R(5), 100, 15, 0, 85),
            Seg(R(5), R(7), 15, 15, 85, 30),
            Seg(R(7), R(9), 15, 100, 30, 0),
            Seg(R(9), R(10), 100, 20, 0, 80),
            Seg(R(10), R(12), 20, 20, 80, 25),
            Seg(R(12), R(14), 20, 100, 25, 0),
            Seg(R(14), R(15), 100, 15, 0, 85),
            Seg(R(15), R(17), 15, 15, 85, 30),
            Seg(R(17), R(19), 15, 100, 30, 0),
            Seg(R(19), R(20), 100, 20, 0, 80),
            Seg(R(20), R(22), 20, 20, 80, 25),
            Seg(R(22), R(24), 20, 100, 25, 0),
            Seg(R(24), R(30), 100, 100, 0, 0) >>)
         [] key = "acceleration" ->
         Pattern("Throttle Control", 30,
         <<
            Seg(R(0), R(5), 0, 100, 0, 0),
            Seg(R(5), R(7), 100, 50, 0, 0),
            Seg(R(7), R(12), 50, 100, 0, 0),
            Seg(R(12), R(14), 100, 30, 0, 0),
            Seg(R(14), R(19), 30, 100, 0, 0),
            Seg(R(19), R(21), 100, 60, 0, 0),
            Seg(R(21), R(26), 60, 100, 0, 0),
            Seg(R(26), R(30), 100, 100, 0, 0) >>)
         [] key = "braking" ->
         Pattern("Brake Control", 30,
         <<
            Seg(R(0), R(3), 0, 100, 0, 0),
            Seg(R(3), R(5), 100, 0, 0, 85),
            Seg(R(5), R(7), 0, 0, 85, 0),
            Seg(R(7), R(10), 0, 100, 0, 0),
            Seg(R(10), R(12), 100, 0, 0, 100),
            Seg(R(12), R(14), 0, 0, 100, 0),
            Seg(R(14), R(17), 0, 100, 0, 0),
            Seg(R(17), R(19), 100, 0, 0, 70),
            Seg(R(19), R(21), 0, 0, 70, 0),
            Seg(R(21), R(24), 0, 100, 0, 0),
            Seg(R(24), R(26), 100, 0, 0, 90),
            Seg(R(26), R(28), 0, 0, 90, 0),
            Seg(R(28), R(30), 0, 80, 0, 0) >>)
         [] key = "chicane" ->
         Pattern("Chicane Practice", 30,
         <<
            Seg(R(0), R(3), 0, 100, 0, 0),
            Seg(R(3), Rat(9, 2), 100, 60, 0, 40),
            Seg(Rat(9, 2), R(6), 60, 60, 40, 0),
            Seg(R(6), Rat(15, 2), 60, 100, 0, 0),
            Seg(Rat(15, 2), R(9), 100, 55, 0, 45),
            Seg(R(9), Rat(21, 2), 55, 55, 45, 0),
            Seg(Rat(21, 2), R(12), 55, 100, 0, 0),
            Seg(R(12), Rat(27, 2), 100, 60, 0, 40),
            Seg(Rat(27, 2), R(15), 60, 60, 40, 0),
            Seg(R(15), Rat(33, 2), 60, 100, 0, 0),
            Seg(Rat(33, 2), R(18), 100, 55, 0, 45),
            Seg(R(18), Rat(39, 2), 55, 55, 45, 0),
            Seg(Rat(39, 2), R(21), 55, 100, 0, 0),
            Seg(R(21), R(30), 100, 100, 0, 0) >>)
         [] key = "oval" ->
         Pattern("Oval Racing", 30,
         <<
            Seg(R(0), R(3), 0, 100, 0, 0),
            Seg(R(3), R(5), 100, 95, 0, 0),
            Seg(R(5), R(10), 95, 100, 0, 0),
            Seg(R(10), R(12), 100, 95, 0, 0),
            Seg(R(12), R(17), 95, 100, 0, 0),
            Seg(R(17), R(19), 100, 95, 0, 0),
            Seg(R(19), R(24), 95, 100, 0, 0),
            Seg(R(24), R(26), 100, 95, 0, 0),
            Seg(R(26), R(30), 95, 100, 0, 0) >>)
    ]

\* The element an array does not have (seg.throttle[1] of "throttle": [50]).
Undefined == [undefined |-> TRUE]

\* a < b and a <= b of JavaScript: false when an operand is undefined.
Less(a, b) == a # Undefined /\ b # Undefined /\ RLt(a, b)

LessEq(a, b) == a # Undefined /\ b # Undefined /\ RLe(a, b)

Valid == [valid |-> TRUE]

Invalid(error) == [valid |-> FALSE, error |-> error]

\* `Segment ${i}: ${text}`
SegmentError(i, text) == Invalid("Segment " \o ToString(i) \o ": " \o text)

\* Mutant: checkValue testing the upper limit only.
checkValueUpperOnly(i, val, name) ==
    IF RLt(R(100), val)
    THEN SegmentError(i, name \o " value out of range (0-100)")
    ELSE Valid

\* Mutant: checkValue rejecting the limits 0 and 100 themselves.
checkValueExclusive(i, val, name) ==
    IF LessEq(val, R(0)) \/ LessEq(R(100), val)
    THEN SegmentError(i, name \o " value out of range (0-100)")
    ELSE Valid

\* checkValue(val, name) of validatePattern, for segment i.
checkValue(i, val, name) ==
    IF Less(val, R(0)) \/ Less(R(100), val)
    THEN SegmentError(i, name \o " value out of range (0-100)")
    ELSE Valid

\* The body of validatePattern's loop for segment i (from 0).
validateSegment(pattern, i) ==
    LET seg == pattern.segments[i + 1]
    IN  IF seg.absent # {} THEN SegmentError(i, "Missing required fields")
        ELSE IF Less(seg.timeRange[1], R(0))
                  \/ Less(pattern.duration, seg.timeRange[2])
        THEN SegmentError(i, "Time range out of bounds")
        ELSE IF LessEq(seg.timeRange[2], seg.timeRange[1])
        THEN SegmentError(i, "Invalid time range")
        ELSE IF ~checkValue(i, seg.throttle[1], "Throttle start").valid
        THEN checkValue(i, seg.throttle[1], "Throttle start")
        ELSE IF ~checkValue(i, seg.throttle[2], "Throttle end").valid
        THEN checkValue(i, seg.throttle[2], "Throttle end")
        ELSE IF ~checkValue(i, seg.brake[1], "Brake start").valid
        THEN checkValue(i, seg.brake[1], "Brake start")
        ELSE checkValue(i, seg.brake[2], "Brake end")

\* Mutant: the loop reporting the last offending segment instead of the first.
validateFromLast(pattern, i) ==
    LET bad == {k \in i..(Len(pattern.segments) - 1) :
                   ~validateSegment(pattern, k).valid}
    IN  IF bad = {} THEN Valid
        ELSE validateSegment(pattern, CHOOSE k \in bad : \A j \in bad : j <= k)

\* validatePattern's loop from segment i on.
RECURSIVE validateFrom(_, _)
validateFrom(pattern, i) ==
    IF i >= Len(pattern.segments) THEN Valid
    ELSE IF ~validateSegment(pattern, i).valid THEN validateSegment(pattern, i)
    ELSE validateFrom(pattern, i + 1)

validatePattern(pattern) ==
    IF \/ "name" \in pattern.absent \/ pattern.name = ""
       \/ "duration" \in pattern.absent \/ pattern.duration = R(0)
       \/ "segments" \in pattern.absent
    THEN Invalid("Pattern must have name, duration, and segments")
    ELSE IF ~pattern.segmentsIsArray \/ Len(pattern.segments) = 0
    THEN Invalid("Segments must be a non-empty array")
    ELSE validateFrom(pattern, 0)

---------------------------------------------------------------------------
(* The generator that takes a pattern: setPattern and loadPatternJSON are    *)
(* called by app.js and are not part of telemetryData.js as given; generate  *)
(* follows the written description of the pattern interpolation.             *)

easeInOut(progress) ==
    IF RLt(progress, Rat(1, 2))
    THEN RMul(R(2), RMul(progress, progress))
    ELSE LET back == RAdd(RMul(R(-2), progress), R(2))
         IN  RSub(R(1), RDiv(RMul(back, back), R(2)))

interpolate(startValue, endValue, progress) ==
    RAdd(startValue, RMul(RSub(endValue, startValue), easeInOut(progress)))

\* The contribution of segment seg to a channel at time t: 0 outside its range.
contribution(seg, channel, t) ==
    IF RLe(seg.timeRange[1], t) /\ RLe(t, seg.timeRange[2])
    THEN interpolate(seg[channel][1], seg[channel][2],
                     RDiv(RSub(t, seg.timeRange[1]),
                          RSub(seg.timeRange[2], seg.timeRange[1])))
    ELSE R(0)

\* The running total of a channel over every segment.
channelTotal(segments, channel, t) ==
    SumFrom([k \in 1..Len(segments) |-> contribution(segments[k], channel, t)], 1)

\* Mutant: only the last containing segment counts (priority, not summation).
patternSamplePriority(pattern, i) ==
    LET t        == Rat(i, 60)
        holders  == {k \in 1..Len(pattern.segments) :
                        /\ RLe(pattern.segments[k].timeRange[1], t)
                        /\ RLe(t, pattern.segments[k].timeRange[2])}
        top      == CHOOSE k \in holders : \A j \in holders : j <= k
        throttle == RAdd(IF holders = {} THEN R(0)
                         ELSE contribution(pattern.segments[top], "throttle", t),
                         RMul(MathSin(RMul(t, R(5))), R(2)))
        brake0   == IF holders = {} THEN R(0)
                    ELSE contribution(pattern.segments[top], "brake", t)
        brake    == IF RLt(R(10), brake0)
                    THEN RAdd(brake0, RMul(MathSin(RMul(t, R(8))), R(3)))
                    ELSE brake0
    IN  [time     |-> t,
         throttle |-> RMax(R(0), RMin(R(100), throttle)),
         brake    |-> RMax(R(0), RMin(R(100), brake))]

\* Sample i of generate(pattern): summed contributions, perturbation, clamp.
patternSample(pattern, i) ==
    LET t        == Rat(i, 60)
        throttle == RAdd(channelTotal(pattern.segments, "throttle", t),
                         RMul(MathSin(RMul(t, R(5))), R(2)))
        brake0   == channelTotal(pattern.segments, "brake", t)
        brake    == IF RLt(R(10), brake0)
                    THEN RAdd(brake0, RMul(MathSin(RMul(t, R(8))), R(3)))
                    ELSE brake0
    IN  [time     |-> t,
         throttle |-> RMax(R(0), RMin(R(100), throttle)),
         brake    |-> RMax(R(0), RMin(R(100), brake))]

generate(pattern) ==
    [k \in 1..RFloor(RMul(pattern.duration, R(60))) |->
        patternSample(pattern, k - 1)]

---------------------------------------------------------------------------
(* app.js: the trainer's session handlers.  The handlers call one another   *)
(* (reset calls stop, stop calls saveSession, start calls animate), so each  *)
(* is written as the trainer after the call, given the trainer before it.    *)

HistoryLimit == 20

\* The trainer's fields, the scoring engine's and the input handler's, the
\* stored history, the graph's history and the clock, as one record.
app ==
    [e |-> engine, h |-> handler, isRunning |-> isRunning,
     currentTime |-> currentTime, isReplayMode |-> isReplayMode,
     replayData |-> replayData, currentSession |-> currentSession,
     sessions |-> sessions, graphPoints |-> graphPoints, now |-> now,
     trainingMode |-> trainingMode, beginnerSettings |-> beginnerSettings,
     playbackSpeed |-> playbackSpeed, tolerance |-> appTolerance,
     startTimers |-> startTimers]

setApp(a) ==
    /\ setEngine(a.e)
    /\ setHandler(a.h)
    /\ isRunning' = a.isRunning
    /\ currentTime' = a.currentTime
    /\ isReplayMode' = a.isReplayMode
    /\ replayData' = a.replayData
    /\ currentSession' = a.currentSession
    /\ sessions' = a.sessions
    /\ graphPoints' = a.graphPoints
    /\ now' = a.now
    /\ trainingMode' = a.trainingMode
    /\ beginnerSettings' = a.beginnerSettings
    /\ playbackSpeed' = a.playbackSpeed
    /\ appTolerance' = a.tolerance
    /\ startTimers' = a.startTimers

\* The engine after getSessionSummary(tolerance).
summarised(e) ==
    IF Len(e.samples) = 0 THEN e
    ELSE [e EXCEPT !.deviations =
                      afterCalculatePercentile(afterCalculatePercentile(@))]

\* The engine after addSample(time, playerInput, referenceInput, tolerance).
sampled(e, time, playerInput, referenceInput, tolerance) ==
    LET e1 == recordSample(e, time, playerInput, referenceInput)
    IN  [e1 EXCEPT !.currentScore = updateCurrentScores(e1, tolerance)]

\* Mutant: saveSession without the cut to 20 sessions.
keptSessionsUncut(all) == all

\* sessions.unshift(sessionData)
withSession(stored, sessionData) == <<sessionData>> \o stored

\* if (sessions.length > 20) sessions = sessions.slice(0, 20)
keptSessions(all) ==
    IF Len(all) > HistoryLimit THEN SubSeq(all, 1, HistoryLimit) ELSE all

\* saveSession().  The stored values are finite numbers, strings, booleans and
\* arrays and objects of them, which JSON.stringify and JSON.parse give back
\* as they were; Date.now() is later at every save.
saveSession(a) ==
    LET summary == sessionSummaryOf(a.e, a.tolerance)
        sessionData ==
            [id |-> a.now,
             timestamp |-> a.currentSession.startTime,
             mode |-> a.currentSession.mode,
             pattern |-> a.currentSession.pattern,
             settings |-> a.currentSession.settings,
             duration |-> a.currentTime,
             summary |-> summary,
             samples |-> a.currentSession.samples]
    IN  [a EXCEPT !.e = summarised(a.e),
                  !.sessions = keptSessions(withSession(a.sessions, sessionData)),
                  !.now = a.now + 1]

\* stop(); showSessionSummary() reads the summary once more.
stop(a) ==
    LET a1 == [a EXCEPT !.isRunning = FALSE]
        a2 == IF /\ ~a1.isReplayMode
                 /\ RLt(R(1), a1.currentTime)
                 /\ Len(a1.currentSession.samples) > 0
                THEN saveSession(a1)
                ELSE a1
    IN  IF RLt(R(1), a1.currentTime) THEN [a2 EXCEPT !.e = summarised(@)] ELSE a2

\* reset(); graphRenderer.clearHistory() empties the graph's history.
resetTrainer(a) ==
    [stop(a) EXCEPT !.currentTime = R(0),
                    !.e = resetEngine,
                    !.graphPoints = 0,
                    !.h = resetInput(@)]

\* animate() called deltaTime milliseconds after the frame before it, the
\* gamepad reading pad.  graphRenderer.addDataPoint adds one point.
\* Mutant: animate() without the test of the duration.
animateUnending(a, deltaTime, pad) ==
    IF ~a.isRunning THEN a
    ELSE
    LET time == RAdd(a.currentTime, RMul(RDiv(deltaTime, R(1000)), a.playbackSpeed))
        a1   == [a EXCEPT !.currentTime = time]
        h1   == update(a1.h, deltaTime, a1.trainingMode, a1.beginnerSettings, pad)
        playerInput == getInputs(h1)
        found == getReferenceAt(referenceData, time)
        referenceInput == [throttle |-> found.throttle, brake |-> found.brake]
        e1 == sampled(a1.e, time, playerInput, referenceInput, a1.tolerance)
        deviation == e1.samples[Len(e1.samples)].deviation
    IN  [a1 EXCEPT !.h = h1,
                   !.e = e1,
                   !.currentSession.samples =
                       Append(@, [time |-> time, playerInput |-> playerInput,
                                  referenceInput |-> referenceInput,
                                  deviation |-> deviation]),
                   !.graphPoints = @ + 1]

animate(a, deltaTime, pad) ==
    IF ~a.isRunning THEN a
    ELSE
    LET time == RAdd(a.currentTime, RMul(RDiv(deltaTime, R(1000)), a.playbackSpeed))
        a1   == [a EXCEPT !.currentTime = time]
    IN  IF RLe(getDuration(referenceData), time) THEN stop(a1)
        ELSE IF a1.isReplayMode /\ a1.replayData # Null
        THEN LET sampleIndex == RFloor(RMul(time, R(60)))
             IN  IF sampleIndex < Len(a1.replayData.samples)
                 THEN LET sample == a1.replayData.samples[sampleIndex + 1]
                      IN  [a1 EXCEPT !.e = sampled(a1.e, time, sample.playerInput,
                                                   sample.referenceInput, a1.tolerance),
                                     !.graphPoints = @ + 1]
                 ELSE [a1 EXCEPT !.graphPoints = @ + 1]
        ELSE LET h1 == update(a1.h, deltaTime, a1.trainingMode, a1.beginnerSettings, pad)
                 playerInput == getInputs(h1)
                 found == getReferenceAt(referenceData, time)
                 referenceInput == [throttle |-> found.throttle, brake |-> found.brake]
                 e1 == sampled(a1.e, time, playerInput, referenceInput, a1.tolerance)
                 deviation == e1.samples[Len(e1.samples)].deviation
             IN  [a1 EXCEPT !.h = h1,
                            !.e = e1,
                            !.currentSession.samples =
                                Append(@, [time |-> time, playerInput |-> playerInput,
                                           referenceInput |-> referenceInput,
                                           deviation |-> deviation]),
                            !.graphPoints = @ + 1]

\* start(): lastFrameTime is set to performance.now() and animate() called at
\* once, which reads performance.now() again: deltaTime milliseconds later.
start(a, deltaTime, pad) ==
    LET a1 == [a EXCEPT !.isRunning = TRUE]
        a2 == IF ~a1.isReplayMode
                THEN [a1 EXCEPT !.currentSession =
                         [startTime |-> a1.now,
                          mode |-> a1.trainingMode,
                          pattern |-> currentPattern.name,
                          settings |-> a1.beginnerSettings,
                          samples |-> <<>>]]
                ELSE a1
    IN  animate(a2, deltaTime, pad)

\* setMode(mode)
setMode(a, mode) ==
    IF a.isRunning THEN a
    ELSE [a EXCEPT !.trainingMode = mode,
                   !.playbackSpeed = IF mode = "beginner"
                                       THEN a.beginnerSettings.playbackSpeed ELSE R(1),
                   !.tolerance = IF mode = "beginner"
                                   THEN a.beginnerSettings.tolerance ELSE 8]

\* The settings the constructor leaves; the playback speed is 7/10.
DefaultSettings ==
    [playbackSpeed |-> Rat(7, 10), tolerance |-> 15, brakeThreshold |-> R(10),
     allowOverlap |-> FALSE]

\* The sliders as loadPreset sets them: speed, tolerance, threshold, overlap.
Preset(preset) ==
    IF preset = "easy"
    THEN [playbackSpeed |-> Rat(3, 10), tolerance |-> 20, brakeThreshold |-> R(5),
          allowOverlap |-> FALSE]
    ELSE IF preset = "medium"
    THEN [playbackSpeed |-> Rat(7, 10), tolerance |-> 15, brakeThreshold |-> R(10),
          allowOverlap |-> FALSE]
    ELSE [playbackSpeed |-> Rat(85, 100), tolerance |-> 12, brakeThreshold |-> R(15),
          allowOverlap |-> FALSE]

\* applyAdminSettings() with the sliders and the checkbox reading form.
applyAdminSettings(a, form) ==
    IF a.isRunning THEN a
    ELSE LET a1 == [a EXCEPT !.beginnerSettings = form]
         IN  IF a1.trainingMode = "beginner"
             THEN setMode([a1 EXCEPT !.playbackSpeed = form.playbackSpeed,
                                     !.tolerance = form.tolerance], "beginner")
             ELSE a1

resetToDefaults(a) == [a EXCEPT !.beginnerSettings = DefaultSettings]

\* The session of that id in the stored history, null when there is none.
find(stored, sessionId) ==
    IF \E k \in 1..Len(stored) : stored[k].id = sessionId
      THEN stored[CHOOSE k \in 1..Len(stored) :
                     /\ stored[k].id = sessionId
                     /\ \A j \in 1..(k - 1) : stored[j].id # sessionId]
      ELSE Null

\* replaySession(sessionId); the start is left to a timer.
replaySession(a, sessionId) ==
    IF a.isRunning THEN a
    ELSE LET session == find(a.sessions, sessionId)
         IN  IF session = Null THEN a
             ELSE LET a1 == [a EXCEPT
                               !.isReplayMode = TRUE,
                               !.replayData = session,
                               !.trainingMode = session.mode,
                               !.beginnerSettings =
                                   IF session.mode = "beginner" THEN session.settings ELSE @,
                               !.playbackSpeed =
                                   IF session.mode = "beginner"
                                     THEN session.settings.playbackSpeed ELSE R(1),
                               !.tolerance =
                                   IF session.mode = "beginner"
                                     THEN session.settings.tolerance ELSE 8]
                      a2 == resetTrainer(setMode(a1, session.mode))
                  IN  [a2 EXCEPT !.startTimers = @ + 1]

\* exitReplayMode()
exitReplayMode(a) ==
    LET a1 == IF a.isRunning THEN stop(a) ELSE a
    IN  resetTrainer([a1 EXCEPT !.isReplayMode = FALSE, !.replayData = Null])

\* deleteSession(sessionId), the confirm dialog answered by confirmed.
deleteSession(a, sessionId, confirmed) ==
    IF ~confirmed THEN a
    ELSE [a EXCEPT !.sessions = SelectSeq(@, LAMBDA x : x.id # sessionId)]

\* clearAllHistory(), the confirm dialog answered by confirmed.
clearAllHistory(a, confirmed) ==
    IF ~confirmed THEN a ELSE [a EXCEPT !.sessions = <<>>]

\* A handler of the trainer called: the trainer becomes a.
called(op, arg, a) ==
    /\ \E after \in {a} : setApp(after)
    /\ ret' = [op |-> op, arg |-> arg, value |-> R(0)]
    /\ UNCHANGED <<telVars, validationMessage, frameMillis>>

---------------------------------------------------------------------------
(* Spec: the engine driven by a short session of arbitrary calls. *)

MaxSamples == 3

Tolerances == {10, 15}

In(t, b) == [throttle |-> R(t), brake |-> R(b)]

\* (player input, reference input) of one frame: both reference channels
\* active; brake only, the player not braking; throttle only, the player braking;
\* neither active (a reference throttle of exactly 10).
Frames ==
    { <<In(30, 40), In(50, 50)>>,
      <<In(30, 0), In(0, 50)>>,
      <<In(35, 50), In(50, 0)>>,
      <<In(20, 0), In(10, 5)>> }

\* Frame intervals in sixtieths of a second; 0 repeats the previous time.
Ticks == {0, 1}

lastTime == IF Len(samples) = 0 THEN R(0) ELSE samples[Len(samples)].time

InitScoring ==
    /\ samples = <<>>
    /\ deviations = <<>>
    /\ timingOffsets = <<>>
    /\ throttleGradients = <<>>
    /\ brakeGradients = <<>>
    /\ currentScore = EmptyScore
    /\ shared = {}

\* No pattern: the generator of telemetryData.js takes none.
NoPattern == [name |-> "", duration |-> R(0), segments |-> <<>>]

\* The scoring engine on its own: no TelemetryData has been constructed.
InitTelemetry ==
    /\ referenceData = <<>>
    /\ currentPattern = NoPattern

NoMessage == [type |-> "", text |-> ""]

\* The InputHandler the constructor leaves.
InitInput ==
    /\ throttleInput = R(0)
    /\ brakeInput = R(0)
    /\ keys = [throttle |-> FALSE, brake |-> FALSE]
    /\ gamepadIndex = Null

\* The session record the constructor leaves.
NoSession == [startTime |-> Null, mode |-> Null, settings |-> Null, samples |-> <<>>]

InitSession ==
    /\ isReplayMode = FALSE
    /\ replayData = Null
    /\ currentSession = NoSession
    /\ sessions = <<>>
    /\ graphPoints = 0
    /\ now = 1

\* A display refreshing at 60 Hz.
InitMode ==
    /\ trainingMode = "beginner"
    /\ beginnerSettings = DefaultSettings
    /\ playbackSpeed = Rat(7, 10)
    /\ appTolerance = 15
    /\ startTimers = 0
    /\ frameMillis = Rat(50, 3)

InitApp ==
    /\ isRunning = FALSE
    /\ currentTime = R(0)
    /\ validationMessage = NoMessage
    /\ InitInput
    /\ InitSession
    /\ InitMode

Init ==
    /\ InitScoring
    /\ InitTelemetry
    /\ InitApp
    /\ ret = [op |-> "constructor", arg |-> 0, value |-> R(0)]

AddSample ==
    /\ Len(samples) < MaxSamples
    /\ \E f \in Frames, k \in Ticks, tol \in Tolerances :
          addSample(RAdd(lastTime, Rat(k, 60)), f[1], f[2], tol)

Reset == reset

GetCurrentScores == getCurrentScores

GetSessionSummary == \E tol \in Tolerances : getSessionSummary(tol)

Next == AddSample \/ Reset \/ GetCurrentScores \/ GetSessionSummary

Spec == Init /\ [][Next]_vars

---------------------------------------------------------------------------
(* SpecCall: one addSample on a fresh engine, its inputs drawn from wide sets, *)
(* followed by the two queries.                                              *)

CallTolerances == {8, 10, 15}

\* Player throttles that put the coasting deviation (throttle + brake) / 2 on,
\* just below and just above the grade breakpoints of the tolerances above.
CallThrottles == {0, 5, 6, 7, 9, 10, 14, 15, 20, 21, 26, 27, 28, 30, 39, 40, 50}

CallPlayers == {In(t, b) : t \in CallThrottles, b \in {0, 10, 11, 50}}

CallReferences == {In(t, b) : t \in {0, 5, 10, 11, 50}, b \in {0, 5, 10, 11, 50}}

CallAddSample ==
    /\ Len(samples) = 0
    /\ \E p \in CallPlayers, r \in CallReferences, tol \in CallTolerances :
          addSample(R(0), p, r, tol)

CallGetSessionSummary == \E tol \in CallTolerances : getSessionSummary(tol)

NextCall == CallAddSample \/ Reset \/ GetCurrentScores \/ CallGetSessionSummary

SpecCall == Init /\ [][NextCall]_vars

---------------------------------------------------------------------------
(* SpecWindow: one long session at 60 Hz that outgrows the recent window.  The *)
(* first WinHead frames are chosen freely, the later ones repeat one frame.    *)

WinHead == 2
WinExtra == 2
WinTolerance == 15

WinFiller == <<In(30, 40), In(50, 50)>>

WinFrames == { WinFiller, <<In(20, 0), In(0, 50)>> }

WinAddSample ==
    /\ Len(samples) < RecentWindow + WinExtra
    /\ \E f \in (IF Len(samples) < WinHead THEN WinFrames ELSE {WinFiller}) :
          addSample(Rat(Len(samples), 60), f[1], f[2], WinTolerance)

NextWindow == WinAddSample \/ GetCurrentScores

SpecWindow == Init /\ [][NextWindow]_vars

---------------------------------------------------------------------------
(* SpecTelemetry: a constructed TelemetryData queried at times before, inside *)
(* and beyond its reference data.                                             *)

QueryTimes ==
    {Rat(5 * k, 16) : k \in (-3)..((16 * Duration) \div 5 + 4)}
        \cup {R(Duration + 100), Rat(totalSamples - 1, SampleRate),
              Rat(2 * totalSamples - 1, 2 * SampleRate), Rat(-1, 1000)}

InitTelemetryData ==
    /\ InitScoring
    /\ InitApp
    /\ currentPattern = NoPattern
    /\ referenceData = generateReferenceData
    /\ ret = [op |-> "constructor", arg |-> 0, value |-> R(0)]

GetReferenceAt ==
    \E time \in QueryTimes :
       /\ ret' = [op |-> "getReferenceAt", arg |-> time,
                  value |-> getReferenceAt(referenceData, time)]
       /\ UNCHANGED <<scoreVars, telVars, appVars>>

GetDuration ==
    /\ ret' = [op |-> "getDuration", arg |-> 0,
               value |-> getDuration(referenceData)]
    /\ UNCHANGED <<scoreVars, telVars, appVars>>

NextTelemetry == GetReferenceAt \/ GetDuration

SpecTelemetry == InitTelemetryData /\ [][NextTelemetry]_vars

---------------------------------------------------------------------------
(* SpecPattern: the trainer with its pattern editor: a custom pattern is saved *)
(* before, during and after a short training session.                         *)

MaxFrames == 2

MaxSessions == 1

OverlapPattern ==
    Pattern("Overlap", 3,
      << Seg(R(0), R(2), 0, 50, 0, 0), Seg(R(1), R(3), 0, 50, 0, 0) >>)

\* The editor's text: whether JSON.parse accepts it and the object it yields.
EditorTexts ==
    { [parses |-> FALSE, pattern |-> NoPattern],
      [parses |-> TRUE, pattern |-> OverlapPattern],
      [parses |-> TRUE, pattern |-> [OverlapPattern EXCEPT !.absent = {"name"}]],
      [parses |-> TRUE,
       pattern |-> [OverlapPattern EXCEPT !.segments[1].brake[1] = R(101)]] }

\* performance.now() differences between two frames, in milliseconds.
FrameMillis == {100, 5000}

\* No gamepad object.
NoPad == Pad(FALSE, R(0), R(0), R(0), R(0), {})

Message(type, text) == [type |-> type, text |-> text]

InitPattern ==
    /\ InitScoring
    /\ InitApp
    /\ currentPattern = DefaultPattern
    /\ referenceData = generate(DefaultPattern)
    /\ ret = [op |-> "constructor", arg |-> 0, value |-> R(0)]

\* toggleTraining() while no session runs: start().  A run starts sessions
\* until MaxSessions of them were saved, and takes MaxFrames frames between
\* two resets.
Start ==
    /\ ~isRunning
    /\ now <= MaxSessions
    /\ called("start", 0, start(app, R(0), NoPad))
    /\ graphPoints' <= MaxFrames

\* toggleTraining() while a session runs: stop().
Stop ==
    /\ isRunning
    /\ called("stop", 0, stop(app))

\* animate(): one frame.
Animate ==
    /\ isRunning
    /\ \E deltaTime \in FrameMillis :
          called("animate", deltaTime, animate(app, R(deltaTime), NoPad))
    /\ graphPoints' <= MaxFrames

\* Mutant: the parsed pattern made the active one before it is validated.
saveCustomPatternEager(text) ==
    IF isRunning
    THEN /\ validationMessage' =
               Message("error", "Cannot change pattern while training is active")
         /\ ret' = [op |-> "saveCustomPattern", arg |-> 0, value |-> "running"]
         /\ UNCHANGED <<scoreVars, telVars, isRunning, currentTime, inputVars, sessionVars, modeVars>>
    ELSE IF ~text.parses
    THEN /\ validationMessage' =
               Message("error", "Failed to load custom pattern: SyntaxError")
         /\ ret' = [op |-> "saveCustomPattern", arg |-> 0, value |-> "malformed"]
         /\ UNCHANGED <<scoreVars, telVars, isRunning, currentTime, inputVars, sessionVars, modeVars>>
    ELSE IF ~validatePattern(text.pattern).valid
    THEN /\ currentPattern' = text.pattern
         /\ validationMessage' =
               Message("error", "Validation error: "
                                   \o validatePattern(text.pattern).error)
         /\ ret' = [op |-> "saveCustomPattern", arg |-> 0, value |-> "invalid"]
         /\ UNCHANGED <<scoreVars, referenceData, isRunning, currentTime, inputVars, sessionVars, modeVars>>
    ELSE /\ currentPattern' = text.pattern
         /\ referenceData' = generate(text.pattern)
         /\ \E after \in {resetTrainer(app)} : setApp(after)
         /\ validationMessage' =
               Message("success", "Custom pattern \"" \o text.pattern.name
                                     \o "\" loaded successfully!")
         /\ ret' = [op |-> "saveCustomPattern", arg |-> 0, value |-> "loaded"]
         /\ UNCHANGED frameMillis

\* saveCustomPattern() with the editor holding text.
saveCustomPattern(text) ==
    IF isRunning
    THEN /\ validationMessage' =
               Message("error", "Cannot change pattern while training is active")
         /\ ret' = [op |-> "saveCustomPattern", arg |-> 0, value |-> "running"]
         /\ UNCHANGED <<scoreVars, telVars, isRunning, currentTime, inputVars, sessionVars, modeVars>>
    ELSE IF ~text.parses
    THEN /\ validationMessage' =
               Message("error", "Failed to load custom pattern: SyntaxError")
         /\ ret' = [op |-> "saveCustomPattern", arg |-> 0, value |-> "malformed"]
         /\ UNCHANGED <<scoreVars, telVars, isRunning, currentTime, inputVars, sessionVars, modeVars>>
    ELSE IF ~validatePattern(text.pattern).valid
    THEN /\ validationMessage' =
               Message("error", "Validation error: "
                                   \o validatePattern(text.pattern).error)
         /\ ret' = [op |-> "saveCustomPattern", arg |-> 0, value |-> "invalid"]
         /\ UNCHANGED <<scoreVars, telVars, isRunning, currentTime, inputVars, sessionVars, modeVars>>
    ELSE /\ currentPattern' = text.pattern
         /\ referenceData' = generate(text.pattern)
         /\ \E after \in {resetTrainer(app)} : setApp(after)
         /\ validationMessage' =
               Message("success", "Custom pattern \"" \o text.pattern.name
                                     \o "\" loaded successfully!")
         /\ ret' = [op |-> "saveCustomPattern", arg |-> 0, value |-> "loaded"]
         /\ UNCHANGED frameMillis

SaveCustomPattern == \E text \in EditorTexts : saveCustomPattern(text)

NextPattern == Start \/ Stop \/ Animate \/ SaveCustomPattern

SpecPattern == InitPattern /\ [][NextPattern]_vars

---------------------------------------------------------------------------
(* SpecGradient: short sessions whose sample times advance, repeat or go back. *)

GradSamples == 3

\* Frame intervals in sixtieths of a second, backwards included.
GradTicks == {-1, 0, 1, 2}

GradFrames ==
    { <<In(30, 40), In(50, 50)>>,
      <<In(80, 0), In(0, 50)>>,
      <<In(35, 90), In(50, 0)>> }

GradAddSample ==
    /\ Len(samples) < GradSamples
    /\ \E f \in GradFrames, k \in GradTicks :
          addSample(RAdd(lastTime, Rat(k, 60)), f[1], f[2], WinTolerance)

NextGradient == GradAddSample \/ Reset

SpecGradient == Init /\ [][NextGradient]_vars

---------------------------------------------------------------------------
(* SpecPercentile: sessions against a reference with fractional values, as the *)
(* generated reference data has, summarised after any number of samples.       *)

PctSamples == 4

\* Throttle-only frames with deviations 12.26, 3 and 20.54.
PctFrames ==
    { <<In(50, 0), [throttle |-> Rat(3774, 100), brake |-> R(0)]>>,
      <<In(50, 0), In(47, 0)>>,
      <<In(50, 0), [throttle |-> Rat(2946, 100), brake |-> R(0)]>> }

PctAddSample ==
    /\ Len(samples) < PctSamples
    /\ \E f \in PctFrames :
          addSample(RAdd(lastTime, Rat(1, 60)), f[1], f[2], WinTolerance)

PctGetSessionSummary == getSessionSummary(WinTolerance)

NextPercentile == PctAddSample \/ PctGetSessionSummary \/ Reset

SpecPercentile == Init /\ [][NextPercentile]_vars

---------------------------------------------------------------------------
(* SpecAlias: a caller that keeps the objects it passed to addSample and       *)
(* assigns to their fields afterwards.                                         *)

AliasSamples == 3

AliasValues == {R(0), R(99)}

AliasAddSample ==
    /\ Len(samples) < AliasSamples
    /\ \E f \in Frames :
          addSample(RAdd(lastTime, Rat(1, 60)), f[1], f[2], WinTolerance)

CallerChanges ==
    \E object \in {"player", "reference"}, field \in {"throttle", "brake"},
       value \in AliasValues :
          callerChanges(object, field, value)

NextAlias == AliasAddSample \/ CallerChanges \/ Reset

SpecAlias == Init /\ [][NextAlias]_vars

---------------------------------------------------------------------------
(* SpecInput: the input handler under key presses, gamepad events and frames  *)
(* of one display, mode and settings.                                         *)

MaxSmooth == 2

\* Frame intervals of a 125 Hz, a 10 Hz and a 1 Hz display, in milliseconds.
InputFrameMillis == {R(8), R(100), R(1000)}

InputSettings ==
    { DefaultSettings,
      [DefaultSettings EXCEPT !.allowOverlap = TRUE],
      [DefaultSettings EXCEPT !.brakeThreshold = R(30)] }

\* No gamepad object; throttle axis full, brake axis at rest; throttle axis
\* full, brake axis at a quarter (-1/2 of -1..1); brake trigger at 12/100.
Pads ==
    { Pad(FALSE, R(0), R(0), R(0), R(0), {}),
      Pad(TRUE, R(1), R(-1), R(0), R(0), {"button6", "button7"}),
      Pad(TRUE, R(1), Rat(-1, 2), R(0), R(0), {"button6", "button7"}),
      Pad(TRUE, R(0), R(0), R(0), Rat(12, 100), {"axis1", "axis2"}) }

InitInputSpec ==
    /\ InitScoring
    /\ InitTelemetry
    /\ isRunning = FALSE
    /\ currentTime = R(0)
    /\ validationMessage = NoMessage
    /\ InitInput
    /\ InitSession
    /\ trainingMode \in {"beginner", "advanced"}
    /\ beginnerSettings \in InputSettings
    /\ playbackSpeed = (IF trainingMode = "beginner" THEN Rat(7, 10) ELSE R(1))
    /\ appTolerance = (IF trainingMode = "beginner" THEN 15 ELSE 8)
    /\ startTimers = 0
    /\ frameMillis \in InputFrameMillis
    /\ ret = [op |-> "constructor", arg |-> 0, value |-> R(0)]

HandleKeyDown == \E key \in {"w", "s", "a"} : handleKey(key, TRUE)

HandleKeyUp == \E key \in {"w", "s", "a"} : handleKey(key, FALSE)

\* A gamepad is plugged in or pulled out while both inputs are at rest.
AtRest == throttleInput = R(0) /\ brakeInput = R(0)

HandleGamepadConnected == AtRest /\ handleGamepadConnected(R(0))

HandleGamepadDisconnected ==
    AtRest /\ \E index \in {R(0), R(1)} : handleGamepadDisconnected(index)

\* The filter of a connected gamepad never settles; a frame is taken while the
\* inputs have been filtered fewer than MaxSmooth times.
Smoothable == gamepadIndex # Null =>
                 /\ throttleInput.d < 20 ^ (MaxSmooth - 1)
                 /\ brakeInput.d < 20 ^ (MaxSmooth - 1)

Update ==
    /\ Smoothable
    /\ \E pad \in Pads : updateInputs(frameMillis, beginnerSettings, pad)

NextInput ==
    \/ HandleKeyDown
    \/ HandleKeyUp
    \/ HandleGamepadConnected
    \/ HandleGamepadDisconnected
    \/ Update

SpecInput == InitInputSpec /\ [][NextInput]_vars

---------------------------------------------------------------------------
(* SpecSession: live sessions on a two-second pattern, recorded and          *)
(* replayed.  Frames come at 60 Hz or, the page having been hidden, a     *)
(* second and a half late.                                                    *)

MaxPoints == 3

ShortPattern == Pattern("Short", 2, << Seg(R(0), R(2), 0, 50, 0, 0) >>)

\* performance.now() differences between two frames, in milliseconds.
SessionFrameMillis == {Rat(50, 3), R(1500)}

\* The trainer after a custom pattern of two seconds was loaded.
InitSessionSpec ==
    /\ InitScoring
    /\ InitApp
    /\ currentPattern = ShortPattern
    /\ referenceData = generate(ShortPattern)
    /\ ret = [op |-> "constructor", arg |-> 0, value |-> R(0)]

\* toggleTraining() while no session runs and none is stored.
SessionStart ==
    /\ ~isRunning
    /\ sessions = <<>>
    /\ called("start", 0, start(app, R(0), NoPad))
    /\ graphPoints' <= MaxPoints

SessionAnimate ==
    /\ isRunning
    /\ \E deltaTime \in SessionFrameMillis :
          called("animate", 0, animate(app, deltaTime, NoPad))
    /\ graphPoints' <= MaxPoints

\* The Reset button.
ResetTrainer == called("reset", 0, resetTrainer(app))

\* A mode button, before the first session is saved.
SetMode ==
    /\ now = 1
    /\ \E mode \in {"beginner", "advanced"} : called("setMode", 0, setMode(app, mode))

\* A Replay button of the history list, while no timer is pending and every
\* stored session is a recording of its own.
ReplaySession ==
    /\ startTimers = 0
    /\ \A j, k \in 1..Len(sessions) :
          sessions[j].timestamp = sessions[k].timestamp => j = k
    /\ \E k \in 1..Len(sessions) :
          called("replaySession", 0, replaySession(app, sessions[k].id))

\* The timer replaySession set fires.
StartTimer ==
    /\ startTimers > 0
    /\ called("startTimer", 0,
              [start(app, R(0), NoPad) EXCEPT !.startTimers = @ - 1])
    /\ graphPoints' <= MaxPoints

\* The Exit button of the replay banner, pressed once the replay has started.
ExitReplayMode ==
    /\ isReplayMode
    /\ startTimers = 0
    /\ called("exitReplayMode", 0, exitReplayMode(app))

NextSession ==
    \/ SessionStart
    \/ Stop
    \/ SessionAnimate
    \/ ResetTrainer
    \/ SetMode
    \/ ReplaySession
    \/ StartTimer
    \/ ExitReplayMode

SpecSession == InitSessionSpec /\ [][NextSession]_vars

---------------------------------------------------------------------------
(* SpecHistory: the trainer opened on a history that earlier visits left in  *)
(* localStorage: empty, one short of full, or full.  Sessions are recorded,  *)
(* saved and deleted.                                                        *)

\* A session an earlier visit saved, its id the time of that save.
StoredSession(id) ==
    [id |-> id, timestamp |-> id, mode |-> "beginner", pattern |-> "Short",
     settings |-> DefaultSettings, duration |-> Rat(21, 20),
     summary |-> [meanDeviation |-> R(0), timingOffset |-> 0, smoothness |-> R(100),
                  grade |-> "A+", totalSamples |-> 1, p50Deviation |-> R(0),
                  p95Deviation |-> R(0)],
     samples |-> << [time |-> R(0), playerInput |-> In(0, 0),
                     referenceInput |-> In(0, 0), deviation |-> R(0)] >>]

\* The history of n sessions, the most recent first.
Stored(n) == [k \in 1..n |-> StoredSession(n + 1 - k)]

InitHistory ==
    /\ InitScoring
    /\ isRunning = FALSE
    /\ currentTime = R(0)
    /\ validationMessage = NoMessage
    /\ InitInput
    /\ InitMode
    /\ isReplayMode = FALSE
    /\ replayData = Null
    /\ currentSession = NoSession
    /\ sessions \in {Stored(0), Stored(HistoryLimit - 1), Stored(HistoryLimit)}
    /\ graphPoints = 0
    /\ now = HistoryLimit + 1
    /\ currentPattern = ShortPattern
    /\ referenceData = generate(ShortPattern)
    /\ ret = [op |-> "constructor", arg |-> 0, value |-> R(0)]

\* toggleTraining() while no session runs; a run starts MaxSessions sessions.
HistoryStart ==
    /\ ~isRunning
    /\ now <= HistoryLimit + MaxSessions
    /\ called("start", 0, start(app, R(0), NoPad))
    /\ graphPoints' <= MaxPoints

\* animate(): a frame a second and a half after the one before.
HistoryAnimate ==
    /\ isRunning
    /\ called("animate", 0, animate(app, R(1500), NoPad))
    /\ graphPoints' <= MaxPoints

\* The Delete button of the most recent or of the oldest session, of a history
\* that is full or one short of it.
DeleteSession ==
    /\ Len(sessions) >= HistoryLimit - 1
    /\ \E k \in {1, Len(sessions)}, confirmed \in BOOLEAN :
          called("deleteSession", 0, deleteSession(app, sessions[k].id, confirmed))

ClearAllHistory ==
    \E confirmed \in BOOLEAN :
       called("clearAllHistory", 0, clearAllHistory(app, confirmed))

NextHistory ==
    \/ HistoryStart
    \/ Stop
    \/ HistoryAnimate
    \/ ResetTrainer
    \/ DeleteSession
    \/ ClearAllHistory

SpecHistory == InitHistory /\ [][NextHistory]_vars

---------------------------------------------------------------------------
(* SpecValidate: validatePattern applied to pattern objects of one or two     *)
(* segments, sound ones and ones broken in one or two places.                 *)

GoodSegments ==
    { Seg(R(0), R(2), 0, 50, 0, 0),
      Seg(R(1), R(3), 0, 50, 0, 0),
      Seg(R(0), R(3), 0, 100, 100, 0) }

BadSegments ==
    LET base == Seg(R(1), R(2), 10, 20, 30, 40)
    IN  { [base EXCEPT !.absent = {"timeRange"}],
          [base EXCEPT !.absent = {"throttle"}],
          [base EXCEPT !.absent = {"brake"}, !.throttle[1] = R(101)],
          [base EXCEPT !.timeRange[1] = Rat(-1, 2)],
          [base EXCEPT !.timeRange[2] = Rat(7, 2)],
          [base EXCEPT !.timeRange[1] = R(2)],
          [base EXCEPT !.timeRange[1] = R(3), !.brake[2] = R(-1)],
          [base EXCEPT !.timeRange[1] = R(5), !.timeRange[2] = R(4)],
          [base EXCEPT !.throttle[1] = R(-1)],
          [base EXCEPT !.throttle[2] = Rat(201, 2)],
          [base EXCEPT !.brake[1] = R(101)],
          [base EXCEPT !.brake[2] = Rat(-1, 10)],
          [base EXCEPT !.throttle[2] = R(101), !.brake[1] = R(-5)],
          [base EXCEPT !.throttle[1] = R(200), !.throttle[2] = R(-1)],
          [base EXCEPT !.brake[1] = R(-1), !.brake[2] = R(101)] }

CandidateSegments == GoodSegments \cup BadSegments

CandidatePatterns ==
    LET sound == Pattern("Custom", 3, <<Seg(R(0), R(2), 0, 50, 0, 0)>>)
    IN  {Pattern("Custom", 3, <<a>>) : a \in CandidateSegments}
          \cup {Pattern("Custom", 3, <<a, b>>) :
                   a \in CandidateSegments, b \in CandidateSegments}
          \cup {[sound EXCEPT !.absent = {f}] : f \in {"name", "duration", "segments"}}
          \cup { [sound EXCEPT !.name = ""],
                 [sound EXCEPT !.duration = R(0)],
                 [sound EXCEPT !.segments = <<>>],
                 [sound EXCEPT !.segmentsIsArray = FALSE],
                 [sound EXCEPT !.absent = {"name"}, !.segments = <<>>] }

ValidatePattern ==
    \E pattern \in CandidatePatterns :
       /\ ret' = [op |-> "validatePattern", arg |-> pattern,
                  value |-> validatePattern(pattern)]
       /\ UNCHANGED <<scoreVars, telVars, appVars>>

NextValidate == ValidatePattern

SpecValidate == Init /\ [][NextValidate]_vars

---------------------------------------------------------------------------
(* SpecRamp: smoothRamp called with the ramps of calculateThrottle and       *)
(* calculateBrake at times before, on, inside and after each ramp.           *)

RampSteps == 8

\* <<startTime, endTime, startValue, endValue>> of the calls in the source.
Ramps ==
    {<<R(0), R(2), R(0), R(100)>>,         <<R(6), Rat(15, 2), R(100), R(20)>>,
     <<R(10), R(12), R(10), R(100)>>,      <<R(16), Rat(35, 2), R(100), R(0)>>,
     <<R(20), R(23), R(0), R(100)>>,       <<R(26), Rat(55, 2), R(100), R(30)>>,
     <<R(28), R(30), R(30), R(80)>>,       <<Rat(13, 2), Rat(15, 2), R(0), R(85)>>,
     <<Rat(15, 2), R(9), R(85), R(20)>>,   <<R(9), R(10), R(20), R(0)>>,
     <<Rat(33, 2), Rat(35, 2), R(0), R(100)>>,
     <<Rat(35, 2), R(19), R(100), R(70)>>, <<R(19), R(20), R(70), R(0)>>,
     <<Rat(53, 2), Rat(55, 2), R(0), R(75)>>,
     <<Rat(55, 2), R(29), R(75), R(0)>>}

\* Times from one step before the ramp to one step after it.
RampTimes(ramp) ==
    {RAdd(ramp[1], RMul(RSub(ramp[2], ramp[1]), Rat(k, RampSteps))) :
        k \in (-1)..(RampSteps + 1)}

SmoothRamp ==
    \E ramp \in Ramps : \E time \in RampTimes(ramp) :
       /\ ret' = [op |-> "smoothRamp", arg |-> [time |-> time, ramp |-> ramp],
                  value |-> smoothRamp(time, ramp[1], ramp[2], ramp[3], ramp[4])]
       /\ UNCHANGED <<scoreVars, telVars, appVars>>

NextRamp == SmoothRamp

SpecRamp == InitTelemetryData /\ [][NextRamp]_vars

---------------------------------------------------------------------------
(* SpecGenerate: a session feeds the engine from the constructed reference   *)
(* data while generateReferenceData is called again (a second TelemetryData  *)
(* constructed, as for a preview).                                           *)

GenSamples == 3

GenPlayers == {In(0, 0), In(30, 0), In(0, 40), In(60, 60)}

GenAddSample ==
    /\ Len(samples) < GenSamples
    /\ \E p \in GenPlayers :
          LET time == RAdd(lastTime, Rat(1, 60))
              at   == getReferenceAt(referenceData, time)
          IN  addSample(time, p, [throttle |-> at.throttle, brake |-> at.brake],
                        WinTolerance)

GenerateReferenceData ==
    /\ ret' = [op |-> "generateReferenceData", arg |-> 0,
               value |-> generateReferenceData]
    /\ UNCHANGED <<scoreVars, telVars, appVars>>

NextGenerate == GenAddSample \/ GenerateReferenceData

SpecGenerate == InitTelemetryData /\ [][NextGenerate]_vars

---------------------------------------------------------------------------
(* SpecTimer: the trainer opened on a history of one session; the session is *)
(* replayed, and the user's clicks come before or after the timer that       *)
(* replaySession set fires.  Frames come at 60 Hz.                           *)

MaxTimers == 1

\* localStorage as an earlier visit left it.
InitTimerSpec ==
    /\ InitScoring
    /\ isRunning = FALSE
    /\ currentTime = R(0)
    /\ validationMessage = NoMessage
    /\ InitInput
    /\ InitMode
    /\ isReplayMode = FALSE
    /\ replayData = Null
    /\ currentSession = NoSession
    /\ sessions = Stored(1)
    /\ graphPoints = 0
    /\ now = 2
    /\ currentPattern = ShortPattern
    /\ referenceData = generate(ShortPattern)
    /\ ret = [op |-> "constructor", arg |-> 0, value |-> R(0)]

\* The Start/Stop button while no session runs.
ToggleTrainingStart ==
    /\ ~isRunning
    /\ called("start", 0, start(app, R(0), NoPad))
    /\ graphPoints' <= MaxPoints

TimerAnimate ==
    /\ isRunning
    /\ called("animate", 0, animate(app, Rat(50, 3), NoPad))
    /\ graphPoints' <= MaxPoints

\* A Replay button of the history list, clicked at any moment.
ReplayClick ==
    /\ startTimers < MaxTimers
    /\ \E k \in 1..Len(sessions) :
          called("replaySession", 0, replaySession(app, sessions[k].id))

\* The Exit button of the replay banner, clicked at any moment.
ExitClick ==
    /\ isReplayMode
    /\ called("exitReplayMode", 0, exitReplayMode(app))

NextTimer ==
    \/ ToggleTrainingStart
    \/ Stop
    \/ TimerAnimate
    \/ ReplayClick
    \/ StartTimer
    \/ ExitClick

SpecTimer == InitTimerSpec /\ [][NextTimer]_vars

---------------------------------------------------------------------------
(* SpecSettings: the settings panel and the mode buttons used before and     *)
(* during sessions on the two-second pattern.  Frames come at 60 Hz.         *)

ApplyAdminSettings ==
    \E preset \in {"easy", "medium", "hard"} :
       called("applyAdminSettings", 0, applyAdminSettings(app, Preset(preset)))

ResetToDefaults == called("resetToDefaults", 0, resetToDefaults(app))

NextSettings ==
    \/ ToggleTrainingStart
    \/ Stop
    \/ TimerAnimate
    \/ SetMode
    \/ ApplyAdminSettings
    \/ ResetToDefaults

SpecSettings == InitSessionSpec /\ [][NextSettings]_vars

---------------------------------------------------------------------------
(* SpecLive: live sessions on the two-second pattern run to their end.  The  *)
(* browser calls animate() for every frame it renders while a frame is      *)
(* requested, a third of a second or a second and a half after the last one. *)

LiveFrameMillis == {R(350), R(1500)}

\* The Start/Stop button while no session runs, none is stored and the graph
\* holds fewer than MaxPoints points.
LiveStart ==
    /\ ~isRunning
    /\ sessions = <<>>
    /\ graphPoints < MaxPoints
    /\ called("start", 0, start(app, R(0), NoPad))

\* animate() called by requestAnimationFrame.
LiveAnimate ==
    /\ isRunning
    /\ \E deltaTime \in LiveFrameMillis :
          called("animate", 0, animate(app, deltaTime, NoPad))

NextLive == LiveStart \/ Stop \/ LiveAnimate \/ ResetTrainer

\* Weak fairness of the frames, WF_vars(LiveAnimate), written out: a frame is
\* requested exactly while isRunning (animate ends by requesting the next one or
\* by stop()), and every frame changes the session time.
FramesKeepArriving == []<>(~isRunning) \/ []<><<LiveAnimate>>_vars

SpecLive == InitSessionSpec /\ [][NextLive]_vars /\ FramesKeepArriving

---------------------------------------------------------------------------
(* SpecAccept: validatePattern called with patterns as the JSON editor can   *)
(* hold them: arrays of one element and a negative duration included.        *)

\* Segments whose arrays lack an element.
ShortSegments ==
    LET base == Seg(R(1), R(2), 10, 20, 30, 40)
    IN  { [base EXCEPT !.throttle[2] = Undefined],
          [base EXCEPT !.brake[1] = Undefined, !.brake[2] = Undefined],
          [base EXCEPT !.timeRange[2] = Undefined],
          [base EXCEPT !.timeRange[1] = Undefined, !.timeRange[2] = Undefined] }

AcceptPatterns ==
    LET lead == GoodSegments \cup ShortSegments
        all  == lead \cup BadSegments
    IN  {Pattern("Custom", d, <<a>>) : a \in all, d \in {3, -5}}
          \cup {Pattern("Custom", 3, <<a, b>>) : a \in lead, b \in all}
          \cup {Pattern("Custom", 3, <<>>)}

ValidateAccept ==
    \E pattern \in AcceptPatterns :
       /\ ret' = [op |-> "validatePattern", arg |-> pattern,
                  value |-> validatePattern(pattern)]
       /\ UNCHANGED <<scoreVars, telVars, appVars>>

NextAccept == ValidateAccept

SpecAccept == Init /\ [][NextAccept]_vars

---------------------------------------------------------------------------
(* SpecBuiltin: one of the built-in patterns is chosen in the pattern list,  *)
(* validated, loaded (setPattern, which generates its reference data) and    *)
(* queried at the times where its segments meet.                             *)

\* Query times: the whole seconds up to MeetTimes and the times in between
\* where segments of the built-in patterns meet.
MeetTimes == 24

BuiltinTimes ==
    {R(k) : k \in 0..MeetTimes} \cup {Rat(9, 2), Rat(13, 2), Rat(15, 2), Rat(35, 2)}

InitBuiltin ==
    /\ InitScoring
    /\ InitApp
    /\ currentPattern = NoPattern
    /\ referenceData = <<>>
    /\ ret = [op |-> "constructor", arg |-> 0, value |-> R(0)]

\* telemetryData.setPattern(key), for the first pattern loaded.
SetPattern ==
    /\ currentPattern = NoPattern
    /\ \E key \in BuiltinKeys :
          /\ currentPattern' = TELEMETRY_PATTERNS[key]
          /\ referenceData' = generate(TELEMETRY_PATTERNS[key])
          /\ ret' = [op |-> "setPattern", arg |-> key, value |-> R(0)]
    /\ UNCHANGED <<scoreVars, appVars>>

ValidateBuiltin ==
    \E key \in BuiltinKeys :
       /\ ret' = [op |-> "validatePattern", arg |-> key,
                  value |-> validatePattern(TELEMETRY_PATTERNS[key])]
       /\ UNCHANGED <<scoreVars, telVars, appVars>>

BuiltinGetReferenceAt ==
    /\ currentPattern # NoPattern
    /\ \E time \in BuiltinTimes :
          ret' = [op |-> "getReferenceAt", arg |-> time,
                  value |-> getReferenceAt(referenceData, time)]
    /\ UNCHANGED <<scoreVars, telVars, appVars>>

NextBuiltin == SetPattern \/ ValidateBuiltin \/ BuiltinGetReferenceAt

SpecBuiltin == InitBuiltin /\ [][NextBuiltin]_vars

---------------------------------------------------------------------------
(* Shorthands of the properties below. *)

afterAddSample == ret.op = "addSample"
afterSummary   == ret.op = "getSessionSummary"
lastSample     == samples[Len(samples)]

\* An integer-valued rational exceeds the activity threshold of 10.
Exceeds10(x) == x.n > 10 * x.d

\* The grade the breakpoints 0.3, 0.5, 0.7, 1 and 1.3 give, in integers.
GradeBand(d, tol) ==
    CASE 10 * d.n <= 3 * tol * d.d  -> "A+"
      [] 10 * d.n > 3 * tol * d.d /\ 10 * d.n <= 5 * tol * d.d  -> "A"
      [] 10 * d.n > 5 * tol * d.d /\ 10 * d.n <= 7 * tol * d.d  -> "B"
      [] 10 * d.n > 7 * tol * d.d /\ d.n <= tol * d.d           -> "C"
      [] d.n > tol * d.d /\ 10 * d.n <= 13 * tol * d.d          -> "D"
      [] 10 * d.n > 13 * tol * d.d                              -> "F"

GradeRank(g) ==
    CASE g = "A+" -> 0 [] g = "A" -> 1 [] g = "B" -> 2
      [] g = "C" -> 3 [] g = "D" -> 4 [] g = "F" -> 5

\* Mean deviations 0, 0.5, 1, ..., 30.
DeviationGrid == {Rat(k, 2) : k \in 0..60}

---------------------------------------------------------------------------
FreshEngine ==
    <<  <<>>, <<>>, <<>>, <<>>, <<>>,
        [meanDeviation |-> [n |-> 0, d |-> 1], timingOffset |-> [n |-> 0, d |-> 1],
         smoothness |-> [n |-> 0, d |-> 1], accuracy |-> "N/A"],
        {}  >>

\* C4: after reset(), whatever was added before, the engine's state is that of a
\* freshly constructed engine; getSessionSummary called next returns zeros, N/A
\* and totalSamples 0; and a reset() following a reset() changes no engine state.
C4_ResetRestoresFresh ==
    /\ [](ret.op = "reset" => scoreVars = FreshEngine)
    /\ [][(ret.op = "reset" /\ ret'.op = "getSessionSummary") =>
            /\ ret'.value.meanDeviation = R(0)
            /\ ret'.value.timingOffset = 0
            /\ ret'.value.smoothness = R(0)
            /\ ret'.value.grade = "N/A"
            /\ ret'.value.totalSamples = 0]_vars
    /\ [][(ret.op = "reset" /\ ret'.op = "reset") => scoreVars' = scoreVars]_vars

\* C4 witness: a reset() that cleared a session of at least two samples.
C4_Witness ==
    /\ ret.op = "reset"
    /\ ret.arg >= 2
    /\ samples = <<>>

strictlyIncreasingTimes ==
    \A i \in 1..(Len(samples) - 1) : RLt(samples[i].time, samples[i + 1].time)

RECURSIVE SampleDeviationSum(_)
SampleDeviationSum(i) ==
    IF i = 0 THEN R(0) ELSE RAdd(samples[i].deviation, SampleDeviationSum(i - 1))

liveMeanGradient ==
    RDiv(RAdd(calculateMean(throttleGradients), calculateMean(brakeGradients)), R(2))

\* 100 - g / 5 cut to [0, 100], for g >= 0.
SmoothnessBand(g) ==
    IF g.n >= 500 * g.d THEN R(0) ELSE Rat(100 * 5 * g.d - g.n, 5 * g.d)

\* Mean gradients (percent per second) below, at and above the 500 that maps to 0.
GradientGrid == {R(g) : g \in {0, 100, 300, 450, 499, 500, 501, 1500, 3000}}

PushAt(smp, k) ==
    recordSample([resetEngine EXCEPT
                     !.samples = IF k = 1 THEN <<>> ELSE <<smp[k - 1]>>],
                 smp[k].time, smp[k].player, smp[k].reference)

\* The engine's histories after a fresh engine is fed the samples smp, whose
\* times increase strictly.
Replayed(smp) ==
    [resetEngine EXCEPT
       !.samples = [k \in 1..Len(smp) |-> PushAt(smp, k).samples[Len(PushAt(smp, k).samples)]],
       !.deviations = [k \in 1..Len(smp) |-> PushAt(smp, k).deviations[1]],
       !.timingOffsets = [k \in 1..Len(smp) |-> PushAt(smp, k).timingOffsets[1]],
       !.throttleGradients =
           [k \in 1..(Len(smp) - 1) |-> PushAt(smp, k + 1).throttleGradients[1]],
       !.brakeGradients =
           [k \in 1..(Len(smp) - 1) |-> PushAt(smp, k + 1).brakeGradients[1]]]

\* The live snapshot the session would show had its i-th sample carried frame f.
ScoreHadSampleBeen(i, f, tolerance) ==
    LET smp == [samples EXCEPT ![i].player = f[1], ![i].reference = f[2]]
    IN  updateCurrentScores(Replayed(smp), tolerance)

recentCount == IF Len(samples) < RecentWindow THEN Len(samples) ELSE RecentWindow

\* The sum of the last k elements of arr.
RecentSum(arr, k) == SumRange(arr, Len(arr) - k + 1, Len(arr))

rawThrottle(i) == calculateThrottle(Rat(i, SampleRate), Duration)
rawBrake(i) == calculateBrake(Rat(i, SampleRate), Duration)

Clamped(raw) ==
    IF RLt(raw, R(0)) THEN R(0) ELSE IF RLt(R(100), raw) THEN R(100) ELSE raw

InRange(x) == RLe(R(0), x) /\ RLe(x, R(100))

constructed == Len(referenceData) > 0

afterQuery == ret.op = "getReferenceAt"

ValidIndices == 0..(Len(referenceData) - 1)

\* C10: no query reads outside the reference data; a query at a time < 0 returns
\* throttle 0 and brake 0 and reads nothing; a query at a time at or beyond the
\* last sample's returns the last sample's throttle and brake, reading only it.
C10_BoundaryQueries ==
    afterQuery =>
      /\ ret.value.reads \subseteq ValidIndices
      /\ RLt(ret.arg, R(0)) =>
            /\ ret.value.throttle = R(0)
            /\ ret.value.brake = R(0)
            /\ ret.value.reads = {}
      /\ RLe(getDuration(referenceData), ret.arg) =>
            /\ ret.value.throttle = referenceData[Len(referenceData)].throttle
            /\ ret.value.brake = referenceData[Len(referenceData)].brake
            /\ ret.value.reads = {Len(referenceData) - 1}

\* C10 witness: the query at duration + 100 has returned the last sample's values,
\* which are not those of the sample before it.
C10_Witness ==
    /\ afterQuery
    /\ ret.arg = R(Duration + 100)
    /\ ret.value.throttle = referenceData[Len(referenceData)].throttle
    /\ ret.value.throttle # referenceData[Len(referenceData) - 1].throttle
    /\ ret.value.throttle # R(0)

Between(x, a, b) == RLe(RMin(a, b), x) /\ RLe(x, RMax(a, b))

StrictlyBetween(x, a, b) == RLt(RMin(a, b), x) /\ RLt(x, RMax(a, b))

\* The weighted mean (1 - f) * a + f * b.
Mix(a, b, f) == RAdd(RMul(RSub(R(1), f), a), RMul(f, b))

afterGenerate ==
    \/ ret.op = "constructor"
    \/ ret.op = "saveCustomPattern" /\ ret.value = "loaded"

\* The segments of currentPattern whose time range contains t, ends included.
Holders(t) ==
    {j \in 1..Len(currentPattern.segments) :
        /\ RLe(currentPattern.segments[j].timeRange[1], t)
        /\ RLe(t, currentPattern.segments[j].timeRange[2])}

\* The eased value of segment j's channel at t, by the ramp of telemetryData.js.
Eased(j, channel, t) ==
    LET seg == currentPattern.segments[j]
    IN  smoothRamp(t, seg.timeRange[1], seg.timeRange[2],
                   seg[channel][1], seg[channel][2])

RECURSIVE EasedSum(_, _, _)
EasedSum(js, channel, t) ==
    IF js = {} THEN R(0)
    ELSE LET j == CHOOSE x \in js : TRUE
         IN  RAdd(Eased(j, channel, t), EasedSum(js \ {j}, channel, t))

ThrottleNoise(t) == RMul(MathSin(RMul(t, R(5))), R(2))

BrakeNoise(t) == RMul(MathSin(RMul(t, R(8))), R(3))

\* C12: each sample of a generated signal holds, per channel, the sum of the
\* eased contributions of every segment containing its time, plus the
\* perturbation, cut to [0, 100].
C12_OverlapSummation ==
    afterGenerate =>
      \A k \in 1..Len(referenceData) :
         LET t  == Rat(k - 1, 60)
             th == EasedSum(Holders(t), "throttle", t)
             br == EasedSum(Holders(t), "brake", t)
         IN  /\ referenceData[k].time = t
             /\ referenceData[k].throttle = Clamped(RAdd(th, ThrottleNoise(t)))
             /\ referenceData[k].brake =
                   Clamped(IF RLt(R(10), br) THEN RAdd(br, BrakeNoise(t)) ELSE br)

\* C12 witness: the signal of segments [0,2] and [1,3], throttle 0 to 50 each:
\* its sample at t = 1.5 is 43.75 + 6.25 plus the perturbation, which neither
\* segment alone gives.
C12_Witness ==
    /\ afterGenerate
    /\ currentPattern = OverlapPattern
    /\ LET t == Rat(3, 2)
           k == 91
       IN  /\ referenceData[k].time = t
           /\ Holders(t) = {1, 2}
           /\ Eased(1, "throttle", t) = Rat(175, 4)
           /\ Eased(2, "throttle", t) = Rat(25, 4)
           /\ referenceData[k].throttle = RAdd(R(50), ThrottleNoise(t))
           /\ referenceData[k].throttle # Clamped(RAdd(Rat(175, 4), ThrottleNoise(t)))
           /\ referenceData[k].throttle # Clamped(RAdd(Rat(25, 4), ThrottleNoise(t)))

afterValidate == ret.op = "validatePattern"

OutOfRange(x) == RLt(x, R(0)) \/ RLt(R(100), x)

\* A segment violates one of the listed rules, under a duration.
SegmentRejected(seg, duration) ==
    \/ seg.absent # {}
    \/ RLt(seg.timeRange[1], R(0))
    \/ RLt(duration, seg.timeRange[2])
    \/ RLe(seg.timeRange[2], seg.timeRange[1])
    \/ \E e \in 1..2 : OutOfRange(seg.throttle[e]) \/ OutOfRange(seg.brake[e])

\* The segments value is unusable or one of the segments violates a rule.
SegmentsRejected(p) ==
    \/ ~p.segmentsIsArray
    \/ Len(p.segments) = 0
    \/ \E k \in 1..Len(p.segments) : SegmentRejected(p.segments[k], p.duration)

Violations(seg, duration) ==
    << seg.absent # {},
       RLt(seg.timeRange[1], R(0)) \/ RLt(duration, seg.timeRange[2]),
       RLe(seg.timeRange[2], seg.timeRange[1]),
       OutOfRange(seg.throttle[1]),
       OutOfRange(seg.throttle[2]),
       OutOfRange(seg.brake[1]),
       OutOfRange(seg.brake[2]) >>

RuleTexts ==
    << "Missing required fields",
       "Time range out of bounds",
       "Invalid time range",
       "Throttle start value out of range (0-100)",
       "Throttle end value out of range (0-100)",
       "Brake start value out of range (0-100)",
       "Brake end value out of range (0-100)" >>

ViolatedRules(seg, duration) == {r \in 1..7 : Violations(seg, duration)[r]}

Least(S) == CHOOSE x \in S : \A y \in S : x <= y

\* The pattern passes the checks made before the segments are looked at.
ReachesSegments(p) ==
    /\ p.absent = {} /\ p.name # "" /\ p.duration # R(0)
    /\ p.segmentsIsArray /\ Len(p.segments) > 0

\* C15: when a pattern is rejected because of its segments, the error names the
\* smallest index (from 0) of a segment violating a rule, and the first rule
\* that segment violates in the order: missing fields, time range out of
\* bounds, invalid time range, throttle start, throttle end, brake start, brake end.
C15_FirstOffender ==
    (afterValidate /\ ReachesSegments(ret.arg) /\ SegmentsRejected(ret.arg)) =>
       LET p == ret.arg
           k == Least({j \in 1..Len(p.segments) :
                          SegmentRejected(p.segments[j], p.duration)})
           r == Least(ViolatedRules(p.segments[k], p.duration))
       IN  /\ ~ret.value.valid
           /\ ret.value.error = "Segment " \o ToString(k - 1) \o ": " \o RuleTexts[r]

\* C15 witness: two offending segments, the first one violating two rules: the
\* error names segment 0 and the earlier of its two rules, and the second
\* segment violates an earlier rule still.
C15_Witness ==
    /\ afterValidate
    /\ Len(ret.arg.segments) = 2
    /\ ViolatedRules(ret.arg.segments[1], ret.arg.duration) = {5, 6}
    /\ ViolatedRules(ret.arg.segments[2], ret.arg.duration) = {2}
    /\ ret.value.error = "Segment 0: Throttle end value out of range (0-100)"

\* C14: a saveCustomPattern whose text fails to parse or whose pattern fails
\* validatePattern leaves the active pattern, the reference data, the scoring
\* state, the session time and the running flag as they were, and sets an error
\* message: a syntax error's for unparsable text, the validation error for an
\* invalid pattern.
C14_NeverPartiallyApplied ==
    [][(ret'.op = "saveCustomPattern" /\ ret'.value \in {"malformed", "invalid"}) =>
          /\ UNCHANGED <<currentPattern, referenceData, scoreVars, currentTime,
                         isRunning>>
          /\ validationMessage'.type = "error"
          /\ validationMessage'.text
                \in {"Failed to load custom pattern: SyntaxError"}
                      \cup {"Validation error: " \o validatePattern(t.pattern).error :
                               t \in {x \in EditorTexts :
                                         x.parses /\ ~validatePattern(x.pattern).valid}}
       ]_vars

\* C14 witness: an invalid pattern was refused after a session on a custom
\* pattern: the samples, the session time and the custom pattern are still there.
C14_Witness ==
    /\ ret.op = "saveCustomPattern"
    /\ ret.value = "invalid"
    /\ Len(samples) > 0
    /\ RLt(R(0), currentTime)
    /\ currentPattern = OverlapPattern
    /\ referenceData = generate(OverlapPattern)
    /\ validationMessage.type = "error"

\* The timing error the three cases give: early, late, otherwise.
TimingCase(playerBrake, referenceBrake) ==
    CASE Exceeds10(playerBrake) /\ ~Exceeds10(referenceBrake) -> R(-50)
      [] Exceeds10(referenceBrake) /\ ~Exceeds10(playerBrake) -> R(50)
      [] OTHER -> R(0)

\* Throttle values put in place of a sample's own throttles.
OtherThrottles == {0, 10, 11, 100}

AddSampleStep == Len(samples') = Len(samples) + 1

newSample == samples'[Len(samples')]

\* |change in value| / dt between the last stored sample and the new one.
GradientOf(channel) ==
    LET dv == RSub(newSample.player[channel], lastSample.player[channel])
        dt == RSub(newSample.time, lastSample.time)
    IN  RDiv(RAbs(dv), dt)

\* The engine with its gradient histories replaced.
WithGradients(g) == [engine EXCEPT !.throttleGradients = g, !.brakeGradients = g]

\* C17: an addSample call appends one throttle gradient and one brake gradient,
\* |change in player value| / dt, when a sample is stored already and the new
\* time is greater than that sample's time, and leaves both gradient histories
\* as they are otherwise (first sample, dt = 0, dt < 0); the deviation and
\* timing error it appends are the same whatever the gradient histories hold.
C17_Gradients ==
    [][AddSampleStep =>
         /\ IF Len(samples) > 0 /\ RLt(lastSample.time, newSample.time)
               THEN /\ throttleGradients' = Append(throttleGradients, GradientOf("throttle"))
                    /\ brakeGradients' = Append(brakeGradients, GradientOf("brake"))
               ELSE /\ throttleGradients' = throttleGradients
                    /\ brakeGradients' = brakeGradients
         /\ \A g \in {<<>>, <<R(0)>>, <<R(6000), R(1)>>} :
               LET e == recordSample(WithGradients(g), newSample.time,
                                     newSample.player, newSample.reference)
               IN  /\ e.deviations = deviations'
                   /\ e.timingOffsets = timingOffsets'
       ]_vars

\* Three samples: the second later than the first (one gradient each, throttle
\* 50 in 1/60 s and brake 40 in 1/60 s), the third earlier than the second.
C17_Witness ==
    /\ afterAddSample
    /\ Len(samples) = 3
    /\ samples[1].player = In(30, 40)
    /\ samples[2].player = In(80, 0)
    /\ samples[2].time = RAdd(samples[1].time, Rat(1, 60))
    /\ RLt(samples[3].time, samples[2].time)
    /\ throttleGradients = <<R(3000)>>
    /\ brakeGradients = <<R(2400)>>

\* The element of arr that stands at 0-based index idx once arr is in ascending
\* order: at most idx elements are smaller and more than idx are not larger.
AtRank(arr, idx) ==
    CHOOSE x \in {arr[k] : k \in 1..Len(arr)} :
       /\ Cardinality({k \in 1..Len(arr) : RLt(arr[k], x)}) <= idx
       /\ Cardinality({k \in 1..Len(arr) : RLe(arr[k], x)}) > idx

\* min(floor(p * n), n - 1) for p = pNum / 100.
RankIndex(n, pNum) ==
    LET i == (n * pNum) \div 100
    IN  IF i < n - 1 THEN i ELSE n - 1

MaxOf(arr) == CHOOSE x \in {arr[k] : k \in 1..Len(arr)} :
                 \A k \in 1..Len(arr) : RLe(arr[k], x)

\* q is x written with one decimal: a multiple of 1/10 within 1/20 of x.
OneDecimalOf(q, x) ==
    /\ (10 * q.n) % q.d = 0
    /\ RLe(RAbs(RSub(q, x)), Rat(1, 20))

\* C18 as stated: the summary's p50Deviation and p95Deviation are the elements
\* at index min(floor(p * n), n - 1) of the deviations in ascending order, each
\* the deviation of a sample, and p50Deviation <= p95Deviation <= the maximum.
C18_Original ==
    (afterSummary /\ Len(samples) > 0) =>
       LET n == Len(deviations)
       IN  /\ ret.value.p50Deviation = AtRank(deviations, RankIndex(n, 50))
           /\ ret.value.p95Deviation = AtRank(deviations, RankIndex(n, 95))
           /\ \E k \in 1..n : ret.value.p50Deviation = deviations[k]
           /\ \E k \in 1..n : ret.value.p95Deviation = deviations[k]
           /\ RLe(ret.value.p50Deviation, ret.value.p95Deviation)
           /\ RLe(ret.value.p95Deviation, MaxOf(deviations))

\* C18: the summary's p50Deviation and p95Deviation are the elements at index
\* min(floor(p * n), n - 1) of the deviations in ascending order, each written
\* with one decimal; each is a sample's deviation so written, and
\* p50Deviation <= p95Deviation <= the maximum deviation so written.
C18_Percentiles ==
    (afterSummary /\ Len(samples) > 0) =>
       LET n   == Len(deviations)
           p50 == AtRank(deviations, RankIndex(n, 50))
           p95 == AtRank(deviations, RankIndex(n, 95))
       IN  /\ OneDecimalOf(ret.value.p50Deviation, p50)
           /\ OneDecimalOf(ret.value.p95Deviation, p95)
           /\ RLe(ret.value.p50Deviation, ret.value.p95Deviation)
           /\ \A q \in {Rat(k, 10) : k \in 0..1000} :
                 OneDecimalOf(q, MaxOf(deviations)) => RLe(ret.value.p95Deviation, q)

\* Four samples with deviations 20.54, 3, 12.26, 3: p50 is the element at index
\* 2 (12.26, reported as 12.3) and p95 the element at index 3 (20.54, as 20.5).
C18_Witness ==
    /\ afterSummary
    /\ deviations = <<Rat(2054, 100), R(3), Rat(1226, 100), R(3)>>
    /\ ret.value.p50Deviation = Rat(123, 10)
    /\ ret.value.p95Deviation = Rat(205, 10)

\* arr with its last element left out.
Front(arr) == SubSeq(arr, 1, Len(arr) - 1)

\* C19: an addSample call appends exactly one sample, one deviation and one timing
\* error and leaves every one stored before as it was; the sample appended holds
\* the values of the inputs passed, and a change the caller makes afterwards to
\* an object it passed changes no stored sample (nor any other history).
C19_AppendOnly ==
    [][/\ ret'.op = "addSample" =>
            /\ Len(samples') = Len(samples) + 1
            /\ Front(samples') = samples
            /\ Len(deviations') = Len(deviations) + 1
            /\ Front(deviations') = deviations
            /\ Len(timingOffsets') = Len(timingOffsets) + 1
            /\ Front(timingOffsets') = timingOffsets
            /\ <<newSample.player, newSample.reference>> \in Frames
            /\ newSample.deviation = deviations'[Len(deviations')]
       /\ ret'.op = "callerChanges" =>
            /\ samples' = samples
            /\ deviations' = deviations
            /\ timingOffsets' = timingOffsets
      ]_vars

\* Three samples are stored and the caller has just set a field of an object it
\* passed to 99; the stored samples still hold the values passed.
C19_Witness ==
    /\ ret.op = "callerChanges"
    /\ ret.value = R(99)
    /\ Len(samples) = 3
    /\ \A k \in 1..3 : <<samples[k].player, samples[k].reference>> \in Frames

Grades == {"A+", "A", "B", "C", "D", "F", "N/A"}

QueryStep == ret'.op \in {"getCurrentScores", "getSessionSummary"}

\* C21: a getCurrentScores or getSessionSummary call, made in any state, returns
\* a result and leaves the samples, the deviations (their order included), the
\* timing errors, the gradients and the live snapshot as they were; every later
\* result is computed from these alone.
C21_QueriesChangeNothing ==
    [][QueryStep =>
         /\ samples' = samples
         /\ deviations' = deviations
         /\ timingOffsets' = timingOffsets
         /\ throttleGradients' = throttleGradients
         /\ brakeGradients' = brakeGradients
         /\ currentScore' = currentScore
         /\ ret'.op = "getSessionSummary" => ret'.value.grade \in Grades
         /\ ret'.op = "getCurrentScores" => ret'.value.accuracy \in Grades
      ]_vars

\* A summary taken mid-session, two samples stored with the deviations in
\* descending order (50, then 10), which the summary's sort would exchange.
C21_Witness ==
    /\ afterSummary
    /\ Len(samples) = 2
    /\ Len(samples) < MaxSamples
    /\ deviations = <<R(50), R(10)>>

\* C29 as stated: a sample whose reference has neither channel above 10 is
\* recorded with deviation 0, so the mean deviation of a session made of such
\* a sample is 0 whatever the player's inputs were.
C29_CoastingZero ==
    (afterAddSample /\ ~Exceeds10(lastSample.reference.throttle)
                    /\ ~Exceeds10(lastSample.reference.brake)) =>
       /\ ret.value = R(0)
       /\ lastSample.deviation = R(0)
       /\ currentScore.meanDeviation = R(0)

SummaryFields ==
    {"meanDeviation", "timingOffset", "smoothness", "grade", "p50Deviation",
     "p95Deviation", "totalSamples"}

\* C28 as stated: every summary getSessionSummary returns, the one of an engine
\* without samples included, has the seven fields meanDeviation, timingOffset,
\* smoothness, grade, p50Deviation, p95Deviation and totalSamples, and its
\* totalSamples is the number of samples stored.
C28_SevenFields ==
    afterSummary =>
       /\ DOMAIN ret.value = SummaryFields
       /\ ret.value.totalSamples = Len(samples)

afterUpdate == ret.op = "update"

\* C22 as stated: in beginner mode with overlap not allowed, after an update the
\* brake input is not above the brake threshold while the throttle input is
\* other than 0.
C22_BrakeLocksThrottle ==
    (afterUpdate /\ trainingMode = "beginner" /\ ~beginnerSettings.allowOverlap) =>
       ~(RLt(beginnerSettings.brakeThreshold, brakeInput) /\ throttleInput # R(0))

\* C23 as stated, step by step: with no gamepad connected, an update made while
\* the W key is held (and S is not) raises a throttle input below 100, and an
\* update made after W is released lowers a throttle input above 0; likewise
\* for S and the brake input.  An input moving by a fixed amount per update
\* reaches 100, or 0, after finitely many updates exactly when each one moves it.
C23_KeyboardRamp ==
    [][(ret'.op = "update" /\ gamepadIndex = Null) =>
         /\ (keys.throttle /\ ~keys.brake /\ RLt(throttleInput, R(100)))
               => RLt(throttleInput, throttleInput')
         /\ (~keys.throttle /\ RLt(R(0), throttleInput))
               => RLt(throttleInput', throttleInput)
         /\ (keys.brake /\ RLt(brakeInput, R(100)))
               => RLt(brakeInput, brakeInput')
         /\ (~keys.brake /\ RLt(R(0), brakeInput))
               => RLt(brakeInput', brakeInput)
      ]_<<throttleInput, brakeInput, ret>>

ZeroOrBeyondDeadzone(x) == x = R(0) \/ RLe(R(2), x)

\* C24: after every update, whatever the frame interval, the mode, the settings,
\* the keys held and the gamepad reading, the throttle and brake inputs are in
\* [0, 100], each is 0 or at least 2, and getInputs returns these two values.
C24_InputRange ==
    /\ InRange(throttleInput) /\ InRange(brakeInput)
    /\ ZeroOrBeyondDeadzone(throttleInput) /\ ZeroOrBeyondDeadzone(brakeInput)
    /\ afterUpdate => ret.value = [throttle |-> throttleInput, brake |-> brakeInput]

\* A gamepad whose brake trigger reads 12: the filter gives 1.8, which the
\* deadzone turns into 0, then 12 * 0.15 again.
C24_Witness ==
    /\ afterUpdate
    /\ gamepadIndex # Null
    /\ brakeInput = R(0)
    /\ throttleInput = R(15)

\* C25 as stated: no step taken in replay mode, from the one after replaySession
\* to exitReplayMode itself, adds an entry to the stored history or changes one.
C25_ReplayNeverRecords ==
    [][isReplayMode => sessions' = sessions]_vars

\* C26 as stated: while a live session runs, the scoring engine holds the
\* samples taken since its start and no others, so that the summary counts
\* exactly the samples of the session record.
C26_StartResets ==
    (isRunning /\ ~isReplayMode) =>
       /\ Len(samples) = Len(currentSession.samples)
       /\ sessionSummaryOf(engine, appTolerance).totalSamples
             = Len(currentSession.samples)

NewestFirst(stored) ==
    \A j, k \in 1..Len(stored) : j < k => stored[j].id > stored[k].id

\* C27: the stored history never holds more than 20 sessions and is ordered
\* most recent first; a step that saves a session puts it first, keeps the
\* others in their order, and with 20 stored drops the oldest.
C27_HistoryBound ==
    /\ [](Len(sessions) <= 20 /\ NewestFirst(sessions))
    /\ [][now' # now =>
            /\ Len(sessions') = (IF Len(sessions) = 20 THEN 20 ELSE Len(sessions) + 1)
            /\ sessions'[1].id = now
            /\ sessions'[1].samples = currentSession.samples
            /\ \A k \in 2..Len(sessions') : sessions'[k] = sessions[k - 1]
         ]_vars

\* C27 witness: a session was saved into a full history, the oldest (id 1) gone.
C27_Witness ==
    /\ ret.op = "stop"
    /\ Len(sessions) = 20
    /\ sessions[1].id = 21
    /\ sessions[20].id = 2
    /\ Len(sessions[1].samples) = 2

\* C30 as stated: once a replay has run to the end, the session summary equals
\* the one stored with the replayed session.
C30_ReplaySameSummary ==
    (/\ isReplayMode /\ replayData # Null /\ ~isRunning /\ ret.op = "animate"
     /\ RLe(getDuration(referenceData), currentTime))
       => sessionSummaryOf(engine, appTolerance) = replayData.summary

\* smoothRamp has just returned.
afterRamp == ret.op = "smoothRamp"

\* C31: smoothRamp returns exactly the start value at every time up to the
\* start time, exactly the end value at every time from the end time on, and
\* in between a value between the two (strictly, as the two differ).
C31_RampEndpoints ==
    afterRamp =>
      LET time       == ret.arg.time
          startTime  == ret.arg.ramp[1]
          endTime    == ret.arg.ramp[2]
          startValue == ret.arg.ramp[3]
          endValue   == ret.arg.ramp[4]
      IN  /\ RLe(endTime, time) => ret.value = endValue
          /\ RLe(time, startTime) => ret.value = startValue
          /\ (RLt(startTime, time) /\ RLt(time, endTime)) =>
                /\ Between(ret.value, startValue, endValue)
                /\ startValue # endValue =>
                      StrictlyBetween(ret.value, startValue, endValue)

\* C31 witness: the brake ramp 6.5..7.5 from 0 to 85 has returned 0 at 6.5, or
\* 85 past 7.5, or 42.5 half way.
C31_Witness ==
    /\ afterRamp
    /\ ret.arg.ramp = <<Rat(13, 2), Rat(15, 2), R(0), R(85)>>
    /\ \/ ret.arg.time = Rat(13, 2) /\ ret.value = R(0)
       \/ RLt(Rat(15, 2), ret.arg.time) /\ ret.value = R(85)
       \/ ret.arg.time = R(7) /\ ret.value = Rat(85, 2)

C33_SavedOnce ==
    \A i, j \in 1..Len(sessions) :
       sessions[i].timestamp = sessions[j].timestamp => i = j

\* C34 as stated: the start() that the timer of replaySession calls is entered
\* only while no session runs, and in the replay mode it was requested in.
C34_OneLoop ==
    [][startTimers' < startTimers => (~isRunning /\ isReplayMode)]_vars

\* C35 as stated: no step taken while a session runs changes the training
\* mode, the tolerance, the playback speed, the beginner settings or the
\* active pattern.
C35_SettingsFrozen ==
    [][isRunning => UNCHANGED <<trainingMode, appTolerance, playbackSpeed,
                                beginnerSettings, currentPattern>>]_vars

\* C36: every sample the engine holds was scored at a time below the duration
\* of the reference data, the times of the samples held never decrease, a
\* session is running only at a time below the duration, and a running session
\* always comes to its end.
C36_SessionEnds ==
    /\ [](\A k \in 1..Len(samples) :
             RLt(samples[k].time, getDuration(referenceData)))
    /\ [](\A k \in 1..(Len(samples) - 1) :
             RLe(samples[k].time, samples[k + 1].time))
    /\ [](isRunning => RLt(currentTime, getDuration(referenceData)))
    /\ (isRunning ~> ~isRunning)

\* C36 witness: a session has ended by itself: the frame that took the
\* session time to the duration stopped it, after several scored samples.
C36_Witness ==
    /\ ret.op = "animate"
    /\ ~isRunning
    /\ RLe(getDuration(referenceData), currentTime)
    /\ Len(samples) >= 3
    /\ sessions # <<>>

\* C37: in every state of the engine deviations, timingOffsets and samples have
\* one length, throttleGradients and brakeGradients have one length, which is
\* at most the number of samples less one (0 with no sample) and is exactly
\* that when the sample times strictly increased.
C37_HistoriesAligned ==
    /\ Len(deviations) = Len(samples)
    /\ Len(timingOffsets) = Len(samples)
    /\ Len(throttleGradients) = Len(brakeGradients)
    /\ Len(throttleGradients) <= (IF Len(samples) = 0 THEN 0 ELSE Len(samples) - 1)
    /\ (Len(samples) > 0 /\ strictlyIncreasingTimes) =>
          Len(throttleGradients) = Len(samples) - 1

\* C37 witness: three samples at increasing times give two gradients, after an
\* earlier reset; or three samples with a repeated time give one.
C37_Witness ==
    /\ Len(samples) = 3
    /\ Len(deviations) = 3
    /\ \/ strictlyIncreasingTimes /\ Len(brakeGradients) = 2
       \/ ~strictlyIncreasingTimes /\ Len(brakeGradients) = 1

\* A number within [lo, hi].
Within(x, lo, hi) == x # Undefined /\ RLe(lo, x) /\ RLe(x, hi)

\* The Pattern data-model invariant: duration > 0, at least one segment, every
\* segment with 0 <= start < end <= duration and four endpoints in [0, 100].
WellFormed(p) ==
    /\ RLt(R(0), p.duration)
    /\ Len(p.segments) >= 1
    /\ \A k \in 1..Len(p.segments) :
          LET seg == p.segments[k]
          IN  /\ seg.absent = {}
              /\ Within(seg.timeRange[1], R(0), p.duration)
              /\ Within(seg.timeRange[2], R(0), p.duration)
              /\ RLt(seg.timeRange[1], seg.timeRange[2])
              /\ \A e \in 1..2 : /\ Within(seg.throttle[e], R(0), R(100))
                                 /\ Within(seg.brake[e], R(0), R(100))

\* C38 as stated: every pattern validatePattern accepts satisfies the Pattern
\* data-model invariant.
C38_AcceptedWellFormed ==
    (afterValidate /\ ret.value.valid) => WellFormed(ret.arg)

\* The segments of p follow one another from 0 to the duration, each starting
\* where and at the values at which the one before ends.
Tiling(p) ==
    /\ Len(p.segments) >= 1
    /\ p.segments[1].timeRange[1] = R(0)
    /\ p.segments[Len(p.segments)].timeRange[2] = p.duration
    /\ \A j \in 1..(Len(p.segments) - 1) :
          /\ p.segments[j].timeRange[2] = p.segments[j + 1].timeRange[1]
          /\ p.segments[j].throttle[2] = p.segments[j + 1].throttle[1]
          /\ p.segments[j].brake[2] = p.segments[j + 1].brake[1]

\* C39 as stated: the reference data of a pattern whose segments tile its
\* duration holds, at every sample time, one containing segment's eased value
\* (plus the perturbation, cut to [0, 100]), also where two segments meet.
C39_TilingOneSegment ==
    (currentPattern # NoPattern /\ Tiling(currentPattern)) =>
      \A k \in 1..Len(referenceData) :
         LET t == Rat(k - 1, 60)
         IN  \E j \in Holders(t) :
                LET th == Eased(j, "throttle", t)
                    br == Eased(j, "brake", t)
                IN  /\ referenceData[k].throttle = Clamped(RAdd(th, ThrottleNoise(t)))
                    /\ referenceData[k].brake =
                          Clamped(IF RLt(R(10), br) THEN RAdd(br, BrakeNoise(t)) ELSE br)

\* C40: validatePattern accepts every pattern of TELEMETRY_PATTERNS.
C40_BuiltinsValid ==
    ret.op = "validatePattern" => ret.value = Valid

\* C40 witness: the chicane pattern, whose segments meet at half seconds and
\* reach the limits 0 and 100, has been validated and accepted.
C40_Witness ==
    /\ ret.op = "validatePattern"
    /\ ret.arg = "chicane"
    /\ ret.value.valid
    /\ Len(TELEMETRY_PATTERNS["chicane"].segments) = 14

=============================================================================
